---- MODULE Spec2Model ----
(***************************************************************************)
(* A model of the PML block-processing engine (package parser):           *)
(* parseBlocks, the checksums, the block cache, ProcessFile with its      *)
(* worker goroutines, generateUniqueResultName, writeResult and           *)
(* updateContentWithResults.                                               *)
(*                                                                         *)
(* Text is a sequence of units.  A unit is one byte, written as a         *)
(* one-character string, except that a generated artifact name is carried *)
(* as one unit (the whole name as one string).  Offsets count units.      *)
(***************************************************************************)
EXTENDS Integers, Sequences, FiniteSets, TLC

(***************************************************************************)
(* Bounds of the model                                                     *)
(***************************************************************************)
MaxRuns == 2
MaxEdits == 1
MaxRestarts == 1
MaxCancels == 1
MaxSegments == 5
MaxNames == 4
MaxLines == 4
MaxEmptyBlocks == 3
NumFiles == 3
MaxClaimed == 22
MaxContentLines == 2
NumCPU == 2

(***************************************************************************)
(* Strings                                                                 *)
(***************************************************************************)
NL == "\n"

IsSpace(c) == c \in {" ", "\t", "\r", "\n"}

RECURSIVE TrimLeft(_)
TrimLeft(s) == IF s # <<>> /\ IsSpace(Head(s)) THEN TrimLeft(Tail(s)) ELSE s

RECURSIVE TrimRight(_)
TrimRight(s) ==
    IF s # <<>> /\ IsSpace(s[Len(s)]) THEN TrimRight(SubSeq(s, 1, Len(s) - 1)) ELSE s

TrimSpace(s) == TrimRight(TrimLeft(s))

HasPrefix(s, p) == Len(s) >= Len(p) /\ SubSeq(s, 1, Len(p)) = p

HasSuffix(s, p) == Len(s) >= Len(p) /\ SubSeq(s, Len(s) - Len(p) + 1, Len(s)) = p

TrimPrefix(s, p) == IF HasPrefix(s, p) THEN SubSeq(s, Len(p) + 1, Len(s)) ELSE s

TrimSuffix(s, p) == IF HasSuffix(s, p) THEN SubSeq(s, 1, Len(s) - Len(p)) ELSE s

\* Go's s[a:b] with 0-based offsets
Slice(s, a, b) == SubSeq(s, a + 1, b)

IndexNL(s) ==
    IF \E i \in 1..Len(s) : s[i] = NL
    THEN CHOOSE i \in 1..Len(s) : s[i] = NL /\ \A j \in 1..(i - 1) : s[j] # NL
    ELSE 0

\* strings.Split(s, "\n")
RECURSIVE Split(_)
Split(s) ==
    LET i == IndexNL(s)
    IN  IF i = 0 THEN <<s>>
        ELSE <<SubSeq(s, 1, i - 1)>> \o Split(SubSeq(s, i + 1, Len(s)))

\* strings.Join(lines, "\n")
RECURSIVE Join(_)
Join(lines) ==
    IF lines = <<>> THEN <<>>
    ELSE IF Len(lines) = 1 THEN lines[1]
    ELSE lines[1] \o <<NL>> \o Join(Tail(lines))

Lower(c) == CASE c = "A" -> "a" [] c = "S" -> "s" [] c = "K" -> "k"
              [] c = "D" -> "d" [] c = "O" -> "o" [] OTHER -> c

ToLower(s) == [i \in 1..Len(s) |-> Lower(s[i])]

\* a collision-free digest: the digest of a text is modelled by the text
sha256(s) == s

(***************************************************************************)
(* Directives                                                              *)
(***************************************************************************)
DirectiveAsk == <<":", "a", "s", "k">>
DirectiveDo == <<":", "d", "o">>
DirectiveEnd == <<":", "-", "-">>

\* a directive that is none of the three
DirectiveFoo == <<":", "f", "o", "o">>

(***************************************************************************)
(* calculateBlockChecksum                                                  *)
(***************************************************************************)
RECURSIVE NormalizedLines(_)
NormalizedLines(lines) ==
    IF lines = <<>> THEN <<>>
    ELSE LET trimmed == TrimSpace(Head(lines))
         IN  (IF trimmed # <<>> THEN trimmed \o <<NL>> ELSE <<>>)
                 \o NormalizedLines(Tail(lines))

\* a block checksum of the lines as they are, joined
calculateBlockChecksum_Untrimmed(block) ==
    sha256(ToLower(TrimSpace(block.Type)) \o <<NL>> \o Join(block.Content) \o <<NL>>)

\* a block checksum that leaves the content out
calculateBlockChecksum_TypeOnly(block) ==
    sha256(ToLower(TrimSpace(block.Type)))

calculateBlockChecksum(block) ==
    sha256(ToLower(TrimSpace(block.Type)) \o <<NL>> \o NormalizedLines(block.Content))

(***************************************************************************)
(* parseBlocks                                                             *)
(***************************************************************************)
\* the scanner's state: currentBlock is <<>> (nil) or <<block>>
ParseInit == [blocks |-> <<>>, currentBlock |-> <<>>, currentPos |-> 0, err |-> ""]

RECURSIVE TrimTrailingEmpty(_)
TrimTrailingEmpty(c) ==
    IF c # <<>> /\ TrimSpace(c[Len(c)]) = <<>>
    THEN TrimTrailingEmpty(SubSeq(c, 1, Len(c) - 1))
    ELSE c

\* a line length that leaves the newline out
parseLineLen_NoNewline(line) == Len(line)

\* len(line) + 1, "+1 for newline"
parseLineLen(line) == Len(line) + 1

\* an append that drops a block without content
appendBlock_NonEmpty(blocks, block) ==
    IF block.Content = <<>> THEN blocks ELSE Append(blocks, block)

\* blocks = append(blocks, *currentBlock)
appendBlock(blocks, block) == Append(blocks, block)

parseStep(st, line) ==
    LET lineLen == parseLineLen(line)
        trimmedLine == TrimSpace(line)
        inBlock == st.currentBlock # <<>>
        asContent ==
            [st EXCEPT !.currentBlock =
                          IF inBlock
                          THEN <<[@[1] EXCEPT !.Content = Append(@, line)]>>
                          ELSE @,
                       !.currentPos = @ + lineLen]
    IN  IF trimmedLine = <<>> THEN asContent
        ELSE IF trimmedLine = DirectiveEnd THEN
            IF ~inBlock THEN [st EXCEPT !.err = "stray"]
            ELSE [st EXCEPT !.blocks = appendBlock(@, [st.currentBlock[1] EXCEPT
                                                    !.End = st.currentPos + Len(line)]),
                            !.currentBlock = <<>>,
                            !.currentPos = @ + lineLen]
        ELSE IF HasPrefix(trimmedLine, DirectiveEnd) THEN asContent
        ELSE IF trimmedLine \in {DirectiveAsk, DirectiveDo} THEN
            IF inBlock THEN [st EXCEPT !.err = "nested"]
            ELSE [st EXCEPT !.currentBlock = <<[Type |-> trimmedLine, Content |-> <<>>,
                                                Start |-> st.currentPos, End |-> 0]>>,
                            !.currentPos = @ + lineLen]
        ELSE asContent

RECURSIVE parseLines(_, _, _)
parseLines(lines, i, st) ==
    IF i > Len(lines) \/ st.err # "" THEN st
    ELSE parseLines(lines, i + 1, parseStep(st, lines[i]))

\* a parse without the test for a block left open at the end of the input
parseBlocks_NoEndCheck(content) ==
    LET st == parseLines(Split(content), 1, ParseInit)
    IN  IF st.err # "" THEN [err |-> st.err, blocks |-> <<>>]
        ELSE [err |-> "",
              blocks |-> [k \in 1..Len(st.blocks) |->
                            [st.blocks[k] EXCEPT !.Content = TrimTrailingEmpty(@)]]]

\* returns [err, blocks]; err = "" when the content parses
parseBlocks(content) ==
    LET st == parseLines(Split(content), 1, ParseInit)
    IN  IF st.err # "" THEN [err |-> st.err, blocks |-> <<>>]
        ELSE IF st.currentBlock # <<>> THEN [err |-> "unterminated", blocks |-> <<>>]
        ELSE [err |-> "",
              blocks |-> [k \in 1..Len(st.blocks) |->
                            [st.blocks[k] EXCEPT !.Content = TrimTrailingEmpty(@)]]]

(***************************************************************************)
(* calculateChecksum                                                       *)
(***************************************************************************)
\* the class [a-z], restricted to the letters of the model's alphabet
LowerLetters == {"a", "d", "k", "o", "p", "q", "r", "s", "x", "z"}

\* first offset j >= i with s[j] outside class (Len(s)+1 when none)
RECURSIVE SkipRun(_, _, _)
SkipRun(s, i, class) ==
    IF i <= Len(s) /\ s[i] \in class THEN SkipRun(s, i + 1, class) ELSE i

\* last offset of a match of  :-+\(r/[a-z]+_[a-z]+\)  starting at i, or 0
MatchLinkAt(s, i) ==
    LET b == SkipRun(s, i + 1, {"-"})
        c == b + 3
        d == SkipRun(s, c, LowerLetters)
        e == SkipRun(s, d + 1, LowerLetters)
    IN  IF /\ s[i] = ":"
           /\ b > i + 1
           /\ c <= Len(s)
           /\ SubSeq(s, b, b + 2) = <<"(", "r", "/">>
           /\ d > c
           /\ d <= Len(s) /\ s[d] = "_"
           /\ e > d + 1
           /\ e <= Len(s) /\ s[e] = ")"
        THEN e ELSE 0

\* resultLinkPattern.ReplaceAllString(content, ":--")
RECURSIVE ReplaceLinks(_, _)
ReplaceLinks(s, i) ==
    IF i > Len(s) THEN <<>>
    ELSE LET e == MatchLinkAt(s, i)
         IN  IF e > 0 THEN DirectiveEnd \o ReplaceLinks(s, e + 1)
             ELSE <<s[i]>> \o ReplaceLinks(s, i + 1)

RECURSIVE TrimmedNonEmpty(_)
TrimmedNonEmpty(lines) ==
    IF lines = <<>> THEN <<>>
    ELSE LET trimmed == TrimSpace(Head(lines))
         IN  (IF trimmed # <<>> THEN <<trimmed>> ELSE <<>>) \o TrimmedNonEmpty(Tail(lines))

calculateChecksum(content) ==
    sha256(Join(TrimmedNonEmpty(Split(ReplaceLinks(content, 1)))))

(***************************************************************************)
(* generateUniqueResultName                                                *)
(***************************************************************************)
adjectives ==
    << "happy", "clever", "swift", "gentle", "brave",
       "wise", "calm", "bright", "kind", "quick",
       "silent", "proud", "bold", "eager", "peaceful",
       "witty", "warm", "smart", "noble", "merry" >>

nouns ==
    << "panda", "falcon", "dolphin", "phoenix", "tiger",
       "maple", "river", "mountain", "breeze", "cloud",
       "crystal", "garden", "meadow", "ocean", "forest",
       "sunrise", "comet", "rainbow", "valley", "whisper" >>

\* filepath.Base(path) of the one document of the model, "test.pml", as code points
SourceFile == <<116, 101, 115, 116, 46, 112, 109, 108>>

RECURSIVE nameHash(_, _)
nameHash(cs, hash) ==
    IF cs = <<>> THEN hash
    ELSE nameHash(Tail(cs), (hash * 31 + Head(cs)) % Len(nouns))

namePrefix(blockType) ==
    CASE blockType = DirectiveAsk -> "ask_"
      [] blockType = DirectiveDo -> "do_"
      [] OTHER -> "result_"

candidateName(sourceFile, blockIndex, blockType, counter) ==
    LET hash == nameHash(sourceFile, 0)
        adjIndex == (blockIndex + hash + counter) % Len(adjectives)
        nounIndex == ((blockIndex + hash + counter) * 7) % Len(nouns)
    IN  namePrefix(blockType) \o adjectives[adjIndex + 1] \o "_" \o nouns[nounIndex + 1]
            \o "_block" \o ToString(blockIndex) \o "_" \o ToString(counter)

\* a search that accepts the first candidate
firstFreeCounter_NoRegistry(sourceFile, blockIndex, blockType, counter, used) == counter

\* the loop: the counter is advanced while the candidate is in p.usedNames
RECURSIVE firstFreeCounter(_, _, _, _, _)
firstFreeCounter(sourceFile, blockIndex, blockType, counter, used) ==
    IF candidateName(sourceFile, blockIndex, blockType, counter) \in used
    THEN firstFreeCounter(sourceFile, blockIndex, blockType, counter + 1, used)
    ELSE counter

\* blockIndex is 0-based; returns the name and the updated registries
generateUniqueResultName(sourceFile, blockIndex, blockType, used, counters) ==
    LET key == <<sourceFile, blockIndex, blockType>>
        start == IF key \in DOMAIN counters THEN counters[key] ELSE 0
        counter == firstFreeCounter(sourceFile, blockIndex, blockType, start, used)
        resultName == candidateName(sourceFile, blockIndex, blockType, counter)
    IN  [name |-> resultName,
         usedNames |-> used \cup {resultName},
         counters |-> (key :> (counter + 1)) @@ counters]

(***************************************************************************)
(* writeResult: the artifact written for a block                          *)
(***************************************************************************)
\* an artifact without the question
writeResult_NoQuestion(block, result) ==
    [is_ephemeral |-> TRUE, type |-> block.Type, question |-> <<>>, answer |-> result]

writeResult(block, result) ==
    [is_ephemeral |-> TRUE, type |-> block.Type,
     question |-> Join(block.Content), answer |-> result]

(***************************************************************************)
(* updateContentWithResults                                                *)
(***************************************************************************)
LinkOpen == <<":", "-", "-", "(", "r", "/">>

relPath(resultFile) ==
    LET r1 == IF HasPrefix(resultFile, Tail(LinkOpen))
              THEN TrimSuffix(TrimPrefix(resultFile, Tail(LinkOpen)), <<")">>)
              ELSE resultFile
    IN  IF HasPrefix(r1, LinkOpen)
        THEN TrimSuffix(TrimPrefix(r1, LinkOpen), <<")">>)
        ELSE r1

refToken(resultFile) == LinkOpen \o relPath(resultFile) \o <<")">>

RECURSIVE spliceFrom(_, _, _, _, _)
spliceFrom(blocks, content, resultFiles, i, lastPos) ==
    IF i > Len(blocks)
    THEN IF lastPos < Len(content) THEN Slice(content, lastPos, Len(content)) ELSE <<>>
    ELSE Slice(content, lastPos, blocks[i].Start)
            \o refToken(resultFiles[i])
            \o spliceFrom(blocks, content, resultFiles, i + 1, blocks[i].End)

\* a rewrite that keeps the blocks and appends the first reference
updateContentWithResults_KeepBlocks(blocks, content, resultFiles) ==
    IF Len(blocks) = 0 THEN content
    ELSE content \o <<NL>> \o refToken(resultFiles[1])

updateContentWithResults(blocks, content, resultFiles) ==
    IF Len(blocks) = 0 THEN content
    ELSE spliceFrom(blocks, content, resultFiles, 1, 0)

(***************************************************************************)
(* The cache of the one document path                                      *)
(***************************************************************************)
EmptyMap == [k \in {} |-> <<>>]

\* an entry that is reset on every call
initCacheEntry_AlwaysFresh(pathCache, fileChecksum, modTime) ==
    <<[Checksum |-> fileChecksum, ModTime |-> modTime, Blocks |-> EmptyMap]>>

\* ProcessFile, "Initialize or update cache entry for the file":
\* pathCache is <<>> (no entry for the path) or <<entry>>
initCacheEntry(pathCache, fileChecksum, modTime) ==
    IF pathCache = <<>> \/ pathCache[1].Checksum # fileChecksum
    THEN <<[Checksum |-> fileChecksum, ModTime |-> modTime, Blocks |-> EmptyMap]>>
    ELSE pathCache

\* processBlock, "Check cache for this block using checksum as key"
cacheHit(pathCache, blockChecksum) ==
    pathCache # <<>> /\ blockChecksum \in DOMAIN pathCache[1].Blocks

\* an update that leaves the block's result out
cacheInsert_EntryOnly(pathCache, blockChecksum, result, modTime) ==
    IF pathCache = <<>>
    THEN <<[Checksum |-> <<>>, ModTime |-> 0, Blocks |-> EmptyMap]>>
    ELSE pathCache

\* processBlock, "Update cache entry for this block"
cacheInsert(pathCache, blockChecksum, result, modTime) ==
    LET entry == IF pathCache = <<>>
                 THEN [Checksum |-> <<>>, ModTime |-> 0, Blocks |-> EmptyMap]
                 ELSE pathCache[1]
    IN  <<[entry EXCEPT !.Blocks =
             (blockChecksum :> [Checksum |-> blockChecksum, Result |-> result,
                                ModTime |-> modTime]) @@ @]>>

\* a byte that is no part of a UTF-8 sequence, and U+FFFD
InvalidByte == "<ff>"
ReplacementChar == "<fffd>"

\* json.Marshal of a string: quotes around it, the quote, the backslash and
\* the newline escaped, bytes that are not UTF-8 replaced by U+FFFD
RECURSIVE jsonEscape(_)
jsonEscape(text) ==
    IF text = <<>> THEN <<>>
    ELSE LET h == Head(text)
         IN  (CASE h = "\"" -> <<"\\", "\"">>
                []  h = "\\" -> <<"\\", "\\">>
                []  h = NL -> <<"\\", "n">>
                []  h = InvalidByte -> <<ReplacementChar>>
                []  OTHER -> <<h>>) \o jsonEscape(Tail(text))

jsonMarshalString(text) == <<"\"">> \o jsonEscape(text) \o <<"\"">>

\* a decoder that takes the text between the quotes as it is
jsonUnmarshalString_NoEscapes(quoted) == SubSeq(quoted, 2, Len(quoted) - 1)

RECURSIVE jsonUnescape(_)
jsonUnescape(text) ==
    IF text = <<>> THEN <<>>
    ELSE IF Head(text) = "\\" /\ Len(text) >= 2
    THEN <<IF text[2] = "n" THEN NL ELSE text[2]>> \o jsonUnescape(SubSeq(text, 3, Len(text)))
    ELSE <<Head(text)>> \o jsonUnescape(Tail(text))

\* json.Unmarshal of a JSON string that json.Marshal wrote
jsonUnmarshalString(quoted) == jsonUnescape(SubSeq(quoted, 2, Len(quoted) - 1))

\* the block map of an entry as it is written to and read from the file
marshalBlocks(Blocks) ==
    [k \in DOMAIN Blocks |-> [Blocks[k] EXCEPT !.Result = jsonMarshalString(@)]]

unmarshalBlocks(Blocks) ==
    [k \in DOMAIN Blocks |-> [Blocks[k] EXCEPT !.Result = jsonUnmarshalString(@)]]

\* saveCache: the snapshot file holds the cache map as JSON
saveCache(pathCache) ==
    [state |-> "valid",
     data |-> IF pathCache = <<>> THEN <<>>
              ELSE <<[pathCache[1] EXCEPT !.Blocks = marshalBlocks(@)]>>]

\* the retention window of loadCache, in hours
RetentionHours == 24

\* a load that takes what the file held whatever the state of the file
loadCache_IgnoreState(snapshot, t) == snapshot.data

\* a load that keeps every block entry
loadCache_NoPrune(snapshot, t) ==
    IF snapshot.state # "valid" \/ snapshot.data = <<>> THEN <<>>
    ELSE <<[snapshot.data[1] EXCEPT !.Blocks = unmarshalBlocks(@)]>>

\* loadCache at time t: a file that is missing, unreadable or not JSON gives
\* an empty cache; of a valid file the entry of the path is taken, without
\* the block entries whose ModTime is more than 24 hours before t
loadCache(snapshot, t) ==
    IF snapshot.state # "valid" \/ snapshot.data = <<>> THEN <<>>
    ELSE LET entry == snapshot.data[1]
             read == unmarshalBlocks(entry.Blocks)
             kept == {k \in DOMAIN read : t - read[k].ModTime <= RetentionHours}
         IN  <<[entry EXCEPT !.Blocks = [k \in kept |-> read[k]]]>>

(***************************************************************************)
(* Inputs: the documents a user may write, the executor's answers         *)
(***************************************************************************)
TextLine == <<"x">>

\* source lines of the blocks users write; the second is the first with
\* incidental whitespace and a blank line added
BlockAskQ == <<DirectiveAsk, <<"q">>, DirectiveEnd>>
BlockAskQSpaced == <<DirectiveAsk, <<" ", "q", " ">>, <<>>, <<" ">> \o DirectiveEnd>>
BlockDoP == <<DirectiveDo, <<"p">>, DirectiveEnd>>
BlockAskZ == <<DirectiveAsk, <<"z">>, DirectiveEnd>>

RECURSIVE DocLines(_)
DocLines(srcs) ==
    IF srcs = <<>> THEN <<TextLine>>
    ELSE <<TextLine>> \o Head(srcs) \o DocLines(Tail(srcs))

\* the documents of the model: text around zero, one or two blocks; two
\* different blocks, two blocks with one checksum, a block changed, a block
\* changed in whitespace only, and a document that does not parse
DocSources ==
    { <<>>,
      <<BlockAskQ>>,
      <<BlockAskQ, BlockDoP>>,
      <<BlockAskQ, BlockAskQSpaced>>,
      <<BlockAskQSpaced, BlockDoP>>,
      <<BlockAskQ, BlockAskZ>> }

\* a block left open at the end of the document
MalformedDoc == Join(<<TextLine, DirectiveAsk, <<"q">>>>)

\* an unknown directive closed by an end marker: an end marker outside a block
StrayEndDoc == Join(<<DirectiveFoo, <<"q">>, DirectiveEnd>>)

\* a start marker in a block
NestedDoc == Join(<<DirectiveAsk, <<"q">>, DirectiveAsk, <<"z">>, DirectiveEnd, DirectiveEnd>>)

\* an unknown directive followed by content, and a block
UnknownDirectiveDoc == Join(<<DirectiveFoo, <<"q">>>> \o BlockAskQ)

Docs ==
    {Join(DocLines(srcs)) : srcs \in DocSources}
        \cup {MalformedDoc, StrayEndDoc, NestedDoc, UnknownDirectiveDoc}

RECURSIVE MaxOf(_)
MaxOf(S) == IF S = {} THEN 0
            ELSE LET x == CHOOSE x \in S : TRUE
                     m == MaxOf(S \ {x})
                 IN  IF x > m THEN x ELSE m

MaxBlocks == MaxOf({Len(srcs) : srcs \in DocSources})

Answers == {<<"4">>, <<"5">>}

\* the batch of the model: a file of two blocks, then files of one block
FileBlocks == [f \in 1..NumFiles |-> IF f = 1 THEN 2 ELSE 1]

(***************************************************************************)
(* State                                                                   *)
(***************************************************************************)
VARIABLES
    doc,                \* the source document on disk
    artifacts,          \* the results area: artifact name -> artifact
    cache,              \* p.cache[path]: <<>> or <<entry>>
    diskCache,          \* the cache snapshot file
    usedNames,          \* p.usedNames
    uniqueNameCounters, \* the package-level counters
    forceProcess,       \* p.forceProcess
    pc,                 \* where the caller of ProcessFile is
    run,                \* number of ProcessFile calls begun
    at,                 \* per call made from a goroutine of its own: where it is
    content,            \* per call: the content read
    blocks,             \* per call: the parsed blocks
    resultFiles,        \* per call: resultFiles[i]
    arrival,            \* per call: what processBlock returned, in the order of the returns
    named,              \* the returns of generateUniqueResultName, in their order
    now,                \* the wall clock, in hours
    errChan,            \* per call: the errors buffered in errChan
    dispatched,         \* per call: number of block goroutines started
    ctxDone,            \* per call: "" or when the call's context was cancelled
    ret,                \* per call: "none" until the call returns
    docAtReturn,        \* per call: the document when the call returned
    okAtReturn,         \* per call: the blocks processBlock had completed at the return
    wk,                 \* per call and block: where the block goroutine is
    calls,              \* per call and block: executor calls made
    info,               \* per call: what held when it began
    edited,             \* the document was edited since the last call returned
    restarted,          \* the process was restarted since the last call returned
    edits,
    restarts,
    cancels,
    mainAt,             \* ProcessAllFiles: where the caller is
    nextFile,           \* ProcessAllFiles: the loop index i, from 1
    fileAt,             \* ProcessAllFiles: per file, where its goroutine is
    fileWk,             \* ProcessAllFiles: per file and block, where the block goroutine is
    allErrChan,         \* ProcessAllFiles: the errors buffered in its errChan, in order
    allCtx,             \* ProcessAllFiles: ctx.Err() of its context, "" while it is live
    pendingAtExpiry,    \* ProcessAllFiles: files not finished when the deadline expired
    allRet,             \* ProcessAllFiles: "none" until it returns
    loaded,             \* the cache of a second engine that loaded the snapshot
    checksums,          \* the checksums of two blocks, <<>> until they are calculated
    cacheCopy,          \* per call: cacheCopy of saveCache, <<>> until it is made
    lockAt              \* per goroutine: its lock operations and how many it has done

vars == <<doc, artifacts, cache, diskCache, usedNames, uniqueNameCounters,
          forceProcess, pc, run, at, content, blocks, resultFiles, arrival, named, now, errChan,
          dispatched, ctxDone, ret, docAtReturn, okAtReturn, wk, calls, info,
          edited, restarted, edits, restarts, cancels,
          mainAt, nextFile, fileAt, fileWk, allErrChan, allCtx, pendingAtExpiry, allRet,
          loaded, checksums, cacheCopy, lockAt>>

engineVars == <<artifacts, cache, usedNames, uniqueNameCounters>>
envVars == <<forceProcess, edited, restarted, edits, restarts, cancels>>
batchVars == <<mainAt, nextFile, fileAt, fileWk, allErrChan, allCtx, pendingAtExpiry, allRet>>
callVars == <<pc, run, at, content, blocks, dispatched, ret, docAtReturn, okAtReturn, info>>
\* what ProcessFile works on; ProcessAllFiles is modelled on its own
fileVars == <<doc, engineVars, diskCache, envVars, callVars, resultFiles, arrival, named, now,
              errChan, ctxDone, wk, calls, loaded, checksums,
              cacheCopy, lockAt>>
\* all but the positions in the lock operations
fileVarsButLocks == <<doc, engineVars, diskCache, envVars, callVars, resultFiles, arrival,
                      named, now, errChan, ctxDone, wk, calls, loaded, checksums,
                      cacheCopy, batchVars>>

Runs == 1..MaxRuns
Slots == 1..MaxBlocks

\* the files handed to ProcessAllFiles, and the number of blocks of each
Files == 1..NumFiles
BatchSlots == 1..MaxOf({FileBlocks[f] : f \in Files})

\* ProcessAllFiles has not been called
InitBatch ==
    /\ mainAt = "loop"
    /\ nextFile = 1
    /\ fileAt = [f \in Files |-> "none"]
    /\ fileWk = [f \in Files |-> [i \in BatchSlots |-> "none"]]
    /\ allErrChan = <<>>
    /\ allCtx = ""
    /\ pendingAtExpiry = 0
    /\ allRet = "none"

\* capacity of ProcessFile's semaphore
SemaphoreSize == 10

NoInfo == [force |-> FALSE, cold |-> FALSE, edited |-> FALSE, restarted |-> FALSE,
           snapshot |-> "none"]

\* the state after NewParser, with the document still to be written
InitEngine ==
    /\ artifacts = EmptyMap
    /\ cache = <<>>
    /\ diskCache = [state |-> "missing", data |-> <<>>]
    /\ usedNames = {}
    /\ uniqueNameCounters = EmptyMap
    /\ forceProcess = FALSE
    /\ pc = "idle"
    /\ run = 0
    /\ at = [r \in Runs |-> "idle"]
    /\ content = [r \in Runs |-> <<>>]
    /\ blocks = [r \in Runs |-> <<>>]
    /\ resultFiles = [r \in Runs |-> [i \in Slots |-> <<>>]]
    /\ arrival = [r \in Runs |-> <<>>]
    /\ named = <<>>
    /\ now = 0
    /\ errChan = [r \in Runs |-> {}]
    /\ dispatched = [r \in Runs |-> 0]
    /\ ctxDone = [r \in Runs |-> ""]
    /\ ret = [r \in Runs |-> "none"]
    /\ docAtReturn = [r \in Runs |-> <<>>]
    /\ okAtReturn = [r \in Runs |-> {}]
    /\ wk = [r \in Runs |-> [i \in Slots |-> "none"]]
    /\ calls = [r \in Runs |-> [i \in Slots |-> 0]]
    /\ info = [r \in Runs |-> NoInfo]
    /\ edited = FALSE
    /\ restarted = FALSE
    /\ edits = 0
    /\ restarts = 0
    /\ cancels = 0
    /\ InitBatch
    /\ loaded = <<>>
    /\ checksums = <<>>
    /\ cacheCopy = [r \in Runs |-> <<>>]
    /\ lockAt = [t \in Runs \X (0..MaxBlocks) |-> [ops |-> <<>>, n |-> 0]]

Init == doc \in Docs /\ InitEngine

\* a block goroutine that has been started and has not finished
Live(w) == w \in {"spawned", "asking"}

Finished(w) == w \in {"ok", "hit", "err"}

\* the call returns value v
Return(v) ==
    /\ ret' = [ret EXCEPT ![run] = v]
    /\ docAtReturn' = [docAtReturn EXCEPT ![run] = doc]
    /\ okAtReturn' = [okAtReturn EXCEPT ![run] = {i \in Slots : wk[run][i] \in {"ok", "hit"}}]
    /\ pc' = "idle"
    /\ edited' = FALSE
    /\ restarted' = FALSE

(***************************************************************************)
(* ProcessFile: the caller                                                 *)
(***************************************************************************)
\* read, checksum, parse, initialise the cache entry (lines 287-324)
ProcessFileBegin ==
    /\ pc = "idle"
    /\ run < MaxRuns
    /\ LET r == run + 1
           fileChecksum == calculateChecksum(doc)
           parsed == parseBlocks(doc)
           entry == initCacheEntry(cache, fileChecksum, now)
       IN  /\ run' = r
           /\ content' = [content EXCEPT ![r] = doc]
           /\ info' = [info EXCEPT ![r] =
                         [force |-> forceProcess,
                          cold |-> /\ entry[1].Blocks = EmptyMap
                                   /\ \A q \in Runs, i \in Slots : ~Live(wk[q][i]),
                          edited |-> edited,
                          restarted |-> restarted,
                          snapshot |-> IF restarted THEN diskCache.state ELSE "none"]]
           /\ IF parsed.err # ""
              THEN /\ ret' = [ret EXCEPT ![r] = "parse"]
                   /\ docAtReturn' = [docAtReturn EXCEPT ![r] = doc]
                   /\ okAtReturn' = okAtReturn
                   /\ pc' = "idle"
                   /\ edited' = FALSE
                   /\ restarted' = FALSE
                   /\ UNCHANGED <<cache, blocks>>
              ELSE /\ blocks' = [blocks EXCEPT ![r] = parsed.blocks]
                   /\ cache' = entry
                   /\ pc' = IF Len(parsed.blocks) = 0 THEN "wait" ELSE "dispatch"
                   /\ UNCHANGED <<ret, docAtReturn, okAtReturn, edited, restarted>>
    /\ UNCHANGED <<doc, artifacts, diskCache, usedNames, uniqueNameCounters,
                   forceProcess, at, resultFiles, arrival, named, now, errChan, dispatched,
                   ctxDone, wk, calls, edits, restarts, cancels, batchVars, loaded, checksums, cacheCopy, lockAt>>

\* one iteration of the dispatch loop (lines 330-356), cancelled
DispatchCancelled ==
    /\ pc = "dispatch"
    /\ ctxDone[run] # ""
    /\ Return("ctx")
    /\ UNCHANGED <<doc, engineVars, diskCache, forceProcess, run, at, content, blocks,
                   resultFiles, arrival, named, now, errChan, dispatched, ctxDone, wk, calls, info,
                   edits, restarts, cancels, batchVars, loaded, checksums, cacheCopy, lockAt>>

\* one iteration of the dispatch loop: start the goroutine of the next block
DispatchBlock ==
    /\ pc = "dispatch"
    /\ ctxDone[run] = ""
    /\ LET i == dispatched[run] + 1
       IN  /\ wk' = [wk EXCEPT ![run][i] = "spawned"]
           /\ dispatched' = [dispatched EXCEPT ![run] = i]
           /\ pc' = IF i = Len(blocks[run]) THEN "wait" ELSE pc
    /\ UNCHANGED <<doc, engineVars, diskCache, envVars, run, at, content, blocks,
                   resultFiles, arrival, named, now, errChan, ctxDone, ret, docAtReturn, okAtReturn, calls,
                   info, batchVars, loaded, checksums, cacheCopy, lockAt>>

\* a select that takes the case of ctx.Done() only once done is closed
AwaitCancelled_AfterDone ==
    /\ pc = "wait"
    /\ ctxDone[run] # ""
    /\ \A i \in 1..Len(blocks[run]) : wk[run][i] \in {"hit", "ok", "err"}
    /\ ret' = [ret EXCEPT ![run] = "ctx"]
    /\ docAtReturn' = [docAtReturn EXCEPT ![run] = doc]
    /\ okAtReturn' = [okAtReturn EXCEPT ![run] = {i \in Slots : wk[run][i] \in {"ok", "hit"}}]
    /\ pc' = "idle"
    /\ edited' = FALSE
    /\ restarted' = FALSE
    /\ UNCHANGED <<doc, engineVars, diskCache, forceProcess, run, at, content, blocks,
                   resultFiles, arrival, named, now, errChan, dispatched, ctxDone, wk, calls, info,
                   edits, restarts, cancels, batchVars, loaded, checksums, cacheCopy, lockAt>>

\* select, case <-ctx.Done() (lines 367-369)
AwaitCancelled ==
    /\ pc = "wait"
    /\ ctxDone[run] # ""
    /\ Return("ctx")
    /\ UNCHANGED <<doc, engineVars, diskCache, forceProcess, run, at, content, blocks,
                   resultFiles, arrival, named, now, errChan, dispatched, ctxDone, wk, calls, info,
                   edits, restarts, cancels, batchVars, loaded, checksums, cacheCopy, lockAt>>

\* wg.Wait() has returned and done is closed (lines 359-364)
doneClosed(r) == \A i \in 1..Len(blocks[r]) : Finished(wk[r][i])

\* a test that lets one error pass
hasErrors_MoreThanOne(errs) == Cardinality(errs) > 1

\* len(errs) > 0
hasErrors(errs) == errs # {}

\* select, case <-done (lines 370-379)
AwaitDone ==
    /\ pc = "wait"
    /\ doneClosed(run)
    /\ IF hasErrors(errChan[run])
       THEN Return("multi")
       ELSE /\ pc' = "write"
            /\ UNCHANGED <<ret, docAtReturn, okAtReturn, edited, restarted>>
    /\ UNCHANGED <<doc, engineVars, diskCache, forceProcess, run, at, content, blocks,
                   resultFiles, arrival, named, now, errChan, dispatched, ctxDone, wk, calls, info,
                   edits, restarts, cancels, batchVars, loaded, checksums, cacheCopy, lockAt>>

\* updateContentWithResults and os.WriteFile (lines 381-387)
WriteBack ==
    /\ pc = "write"
    /\ doc' = updateContentWithResults(blocks[run], content[run],
                  [i \in 1..Len(blocks[run]) |-> resultFiles[run][i]])
    /\ pc' = "save"
    /\ UNCHANGED <<engineVars, diskCache, envVars, run, at, content, blocks, resultFiles, arrival, named, now,
                   errChan, dispatched, ctxDone, ret, docAtReturn, okAtReturn, wk, calls, info,
                   batchVars, loaded, checksums, cacheCopy, lockAt>>

\* saveCache and return nil (lines 389-394)
SaveAndReturn ==
    /\ pc = "save"
    /\ diskCache' = saveCache(cache)
    /\ Return("nil")
    /\ UNCHANGED <<doc, engineVars, forceProcess, run, at, content, blocks, resultFiles, arrival, named, now,
                   errChan, dispatched, ctxDone, wk, calls, info, edits, restarts, cancels,
                   batchVars, loaded, checksums, cacheCopy, lockAt>>

(***************************************************************************)
(* ProcessFile: the goroutine of block i of call r (lines 336-354), and   *)
(* processBlock                                                            *)
(***************************************************************************)
\* a store at the first slot that is still empty
storeResult_ByArrival(files, i, resultFile) ==
    IF \E k \in DOMAIN files : files[k] = <<>>
    THEN [files EXCEPT ![CHOOSE k \in DOMAIN files :
                            files[k] = <<>> /\ \A j \in DOMAIN files : files[j] = <<>> => k <= j]
                          = resultFile]
    ELSE files

\* "Store result file": resultFiles[i] = resultFile (lines 350-353)
storeResult(files, i, resultFile) == [files EXCEPT ![i] = resultFile]

\* a lookup that does not ask for the force flag
useCache_IgnoreForce(force, pathCache, blockChecksum) == cacheHit(pathCache, blockChecksum)

\* processBlock, "Check cache for this block using checksum as key": only
\* with force off is the cache looked at (lines 406-417)
useCache(force, pathCache, blockChecksum) == ~force /\ cacheHit(pathCache, blockChecksum)

SemaphoreHeld(r) == Cardinality({i \in Slots : wk[r][i] = "asking"})

\* The goroutine acquires the semaphore and enters processBlock: ctx.Err(),
\* the cache check, and on a miss the call of the executor (lines 340-424).
WorkerBegin(r, i) ==
    /\ wk[r][i] = "spawned"
    /\ SemaphoreHeld(r) < SemaphoreSize
    /\ LET block == blocks[r][i]
           blockChecksum == calculateBlockChecksum(block)
       IN  IF ctxDone[r] # ""
           THEN /\ wk' = [wk EXCEPT ![r][i] = "err"]
                /\ errChan' = [errChan EXCEPT ![r] = @ \cup {[block |-> i, kind |-> "ctx"]}]
                /\ UNCHANGED <<resultFiles, arrival, calls>>
           ELSE IF useCache(forceProcess, cache, blockChecksum)
           THEN /\ wk' = [wk EXCEPT ![r][i] = "hit"]
                /\ resultFiles' = [resultFiles EXCEPT ![r] =
                                      storeResult(@, i, cache[1].Blocks[blockChecksum].Result)]
                /\ arrival' = [arrival EXCEPT ![r] =
                                  Append(@, <<i, cache[1].Blocks[blockChecksum].Result>>)]
                /\ UNCHANGED <<calls, errChan>>
           ELSE IF block.Type \in {DirectiveAsk, DirectiveDo}
           THEN /\ wk' = [wk EXCEPT ![r][i] = "asking"]
                /\ calls' = [calls EXCEPT ![r][i] = @ + 1]
                /\ UNCHANGED <<resultFiles, arrival, errChan>>
           ELSE /\ wk' = [wk EXCEPT ![r][i] = "err"]
                /\ errChan' = [errChan EXCEPT ![r] = @ \cup {[block |-> i, kind |-> "unknown"]}]
                /\ UNCHANGED <<resultFiles, arrival, calls>>
    /\ UNCHANGED <<doc, engineVars, diskCache, envVars, callVars, ctxDone, named, now,
                   batchVars, loaded, checksums, cacheCopy, lockAt>>

\* the executor returns an error (lines 429-431, 345-348)
ExecutorFails(r, i) ==
    /\ wk[r][i] = "asking"
    /\ wk' = [wk EXCEPT ![r][i] = "err"]
    /\ errChan' = [errChan EXCEPT ![r] = @ \cup {[block |-> i, kind |-> "exec"]}]
    /\ UNCHANGED <<doc, engineVars, diskCache, envVars, callVars, resultFiles, arrival, named, now,
                   ctxDone, calls, batchVars, loaded, checksums, cacheCopy, lockAt>>

\* The executor returns a result: the artifact is named and written, the
\* cache entry of the block is updated, processBlock returns the artifact
\* name and the goroutine stores it (lines 433-467, 350-353).
ExecutorAnswers(r, i) ==
    /\ wk[r][i] = "asking"
    /\ \E result \in Answers :
         LET block == blocks[r][i]
             gen == generateUniqueResultName(SourceFile, i - 1, block.Type,
                                             usedNames, uniqueNameCounters)
         IN  /\ usedNames' = gen.usedNames
             /\ uniqueNameCounters' = gen.counters
             /\ artifacts' = (gen.name :> writeResult(block, result)) @@ artifacts
             /\ cache' = cacheInsert(cache, calculateBlockChecksum(block), result, now)
             /\ resultFiles' = [resultFiles EXCEPT ![r] = storeResult(@, i, <<gen.name>>)]
             /\ arrival' = [arrival EXCEPT ![r] = Append(@, <<i, <<gen.name>>>>)]
             /\ named' = Append(named, [name |-> gen.name, engine |-> restarts,
                                        key |-> <<SourceFile, i - 1, block.Type>>,
                                        onStore |-> gen.name \in DOMAIN artifacts])
    /\ wk' = [wk EXCEPT ![r][i] = "ok"]
    /\ UNCHANGED <<doc, diskCache, envVars, callVars, errChan, ctxDone, calls, now, batchVars, loaded, checksums, cacheCopy, lockAt>>

(***************************************************************************)
(* The environment                                                         *)
(***************************************************************************)
\* The context of the running call is cancelled (or its deadline expires):
\* "early" before a block goroutine was started, "mid" while the caller is in
\* the dispatch loop or in the select with goroutines started, "late" after
\* the caller left the select.
Cancel ==
    /\ pc # "idle"
    /\ ctxDone[run] = ""
    /\ cancels < MaxCancels
    /\ ctxDone' = [ctxDone EXCEPT ![run] =
                      IF pc \in {"write", "save"} THEN "late"
                      ELSE IF dispatched[run] = 0 THEN "early"
                      ELSE "mid"]
    /\ cancels' = cancels + 1
    /\ UNCHANGED <<doc, engineVars, diskCache, forceProcess, edited, restarted, edits,
                   restarts, callVars, resultFiles, arrival, named, now, errChan, wk, calls,
                   batchVars, loaded, checksums, cacheCopy, lockAt>>

\* the user rewrites the document between two calls
EditDocument ==
    /\ pc = "idle"
    /\ run \in 1..(MaxRuns - 1)
    /\ edits < MaxEdits
    /\ \E d \in Docs \ {doc} : doc' = d
    /\ edited' = TRUE
    /\ edits' = edits + 1
    /\ UNCHANGED <<engineVars, diskCache, forceProcess, restarted, restarts, cancels,
                   callVars, resultFiles, arrival, named, now, errChan, ctxDone, wk, calls,
                   batchVars, loaded, checksums, cacheCopy, lockAt>>

\* the process ends and a new one calls NewParser: the goroutines of the old
\* process are gone, the registries are empty, the cache is loaded from disk
Restart ==
    /\ pc = "idle"
    /\ run \in 1..(MaxRuns - 1)
    /\ restarts < MaxRestarts
    /\ cache' = loadCache(diskCache, now)
    /\ usedNames' = {}
    /\ uniqueNameCounters' = EmptyMap
    /\ wk' = [r \in Runs |-> [i \in Slots |->
                IF Live(wk[r][i]) THEN "dead" ELSE wk[r][i]]]
    /\ restarted' = TRUE
    /\ restarts' = restarts + 1
    /\ UNCHANGED <<doc, artifacts, diskCache, forceProcess, edited, edits, cancels,
                   callVars, resultFiles, arrival, named, now, errChan, ctxDone, calls,
                   batchVars, loaded, checksums, cacheCopy, lockAt>>

Next ==
    \/ ProcessFileBegin
    \/ DispatchCancelled
    \/ DispatchBlock
    \/ AwaitCancelled
    \/ AwaitDone
    \/ WriteBack
    \/ SaveAndReturn
    \/ \E r \in Runs, i \in Slots : WorkerBegin(r, i)
    \/ \E r \in Runs, i \in Slots : ExecutorFails(r, i)
    \/ \E r \in Runs, i \in Slots : ExecutorAnswers(r, i)
    \/ Cancel
    \/ EditDocument
    \/ Restart

Spec == Init /\ [][Next]_vars

(***************************************************************************)
(* Vocabulary of the properties                                            *)
(***************************************************************************)
NumBlocks(r) == Len(blocks[r])

Began(r) == r <= run

Returned(r) == ret[r] # "none"

BlockKey(r, i) == calculateBlockChecksum(blocks[r][i])

\* two blocks agree in their normalized type and their trimmed non-blank lines
SameBlock(a, b) ==
    /\ ToLower(TrimSpace(a.Type)) = ToLower(TrimSpace(b.Type))
    /\ TrimmedNonEmpty(a.Content) = TrimmedNonEmpty(b.Content)

\* call r is a second call on the document as the successful call r-1 left
\* it, with force mode off
RepeatOfSuccess(r) ==
    /\ r > 1 /\ Began(r)
    /\ ret[r - 1] = "nil"
    /\ ~info[r].edited
    /\ ~info[r].force

\* call r retries, on the same engine, the unchanged document of call r-1,
\* which was aborted by the error of a block
RetryOfFailure(r) ==
    /\ r > 1 /\ Began(r)
    /\ ret[r - 1] = "multi"
    /\ ~info[r].edited /\ ~info[r].restarted
    /\ ~info[r].force

ColdCache(r) == Began(r) /\ ret[r] # "parse" /\ info[r].cold

OneBlockChanged(r) ==
    /\ r > 1 /\ Began(r)
    /\ ret[r - 1] = "nil"
    /\ ~info[r].force
    /\ NumBlocks(r) = NumBlocks(r - 1)
    /\ Cardinality({i \in 1..NumBlocks(r) : ~SameBlock(blocks[r][i], blocks[r - 1][i])}) = 1

\* C3: after a successful run, when one block's content is changed and the
\* document is processed again, the executor is called only for the changed
\* block.
C3_TargetedInvalidation ==
    \A r \in Runs :
        OneBlockChanged(r) =>
            \A i \in 1..NumBlocks(r) :
                SameBlock(blocks[r][i], blocks[r - 1][i]) => calls[r][i] = 0

\* the context of call r was cancelled after block dispatch had begun and
\* before the caller left the select that awaits the blocks
CancelledMidRun(r) == Returned(r) /\ ctxDone[r] = "mid"

\* C4: when the context is cancelled mid-run, the document after the call
\* returns is the document before the call.
C4_CancelLeavesDocument ==
    \A r \in Runs : CancelledMidRun(r) => docAtReturn[r] = content[r]

\* C5: when the context is cancelled mid-run, the call returns the context's
\* error.
C5_CancelErrorKind ==
    \A r \in Runs : CancelledMidRun(r) => ret[r] = "ctx"

ExecutorFailed(r) == \E e \in errChan[r] : e.kind = "exec"

\* C6: when the executor returns an error for a block, ProcessFile returns
\* an error and the document is as it was before the call.
C6_NoPartialRewrite ==
    \A r \in Runs :
        (Returned(r) /\ ExecutorFailed(r)) =>
            /\ ret[r] # "nil"
            /\ docAtReturn[r] = content[r]

C6_Witness ==
    \E r \in Runs :
        /\ Returned(r) /\ ExecutorFailed(r)
        /\ \E i \in Slots : wk[r][i] = "ok"

\* C7: after a run aborted by a block's error, the results of the blocks
\* that completed are in the engine's cache, and a retry on the unchanged
\* document calls the executor only for blocks that had not completed.
C7_RetryDoesLessWork ==
    /\ \A r \in Runs :
          (run = r /\ pc = "idle" /\ ret[r] = "multi" /\ ~restarted) =>
              \A i \in okAtReturn[r] : cacheHit(cache, BlockKey(r, i))
    /\ \A r \in Runs :
          RetryOfFailure(r) =>
              \A i \in 1..NumBlocks(r) : calls[r][i] > 0 => i \notin okAtReturn[r - 1]

C7_Witness ==
    \E r \in Runs :
        /\ RetryOfFailure(r)
        /\ ExecutorFailed(r - 1)
        /\ ret[r] = "nil"
        /\ \E i \in okAtReturn[r - 1] : wk[r][i] = "hit"
        /\ \E j \in Slots : calls[r][j] = 1
        /\ \E i \in Slots : calls[r][i] = 1

\* call r is a retry of the unchanged document of the aborted call r-1 by a
\* new engine that loaded the cache from disk
RetryByNewEngine(r) ==
    /\ r > 1 /\ Began(r)
    /\ ret[r - 1] \in {"multi", "ctx"}
    /\ ~info[r].edited /\ info[r].restarted
    /\ ~info[r].force

\* C8: when a run is aborted, the results of the blocks that had completed
\* are in the saved cache snapshot, and a new engine that loads the snapshot
\* and retries the unchanged document calls the executor only for the blocks
\* that had not completed.
C8_PartialProgressDurable ==
    /\ \A r \in Runs :
          (run = r /\ pc = "idle" /\ ret[r] \in {"multi", "ctx"}) =>
              \A i \in okAtReturn[r] : cacheHit(diskCache.data, BlockKey(r, i))
    /\ \A r \in Runs :
          RetryByNewEngine(r) =>
              \A i \in 1..NumBlocks(r) : calls[r][i] > 0 => i \notin okAtReturn[r - 1]

\* the paths of the reference tokens :--(r/<path>) that occur in a text
RECURSIVE RefPaths(_)
RefPaths(text) ==
    IF Len(text) < Len(LinkOpen) THEN {}
    ELSE IF HasPrefix(text, LinkOpen)
    THEN LET rest == SubSeq(text, Len(LinkOpen) + 1, Len(text))
             close == SkipRun(rest, 1, {u \in {rest[k] : k \in 1..Len(rest)} : u # ")"})
         IN  {SubSeq(rest, 1, close - 1)} \cup RefPaths(SubSeq(rest, close, Len(rest)))
    ELSE RefPaths(Tail(text))

\* C9: after a successful ProcessFile, every reference token of the
\* rewritten document names an artifact of the results area.
C9_TokensNameArtifacts ==
    \A r \in Runs :
        ret[r] = "nil" =>
            \A path \in RefPaths(docAtReturn[r]) :
                \E name \in DOMAIN artifacts : path = <<name>>

(***************************************************************************)
(* Splicing as a function of the document                                  *)
(***************************************************************************)
\* the pieces documents are put together from: lines of text, and blocks
Segments ==
    { <<TextLine>>,
      << <<>> >>,
      << <<" ", "x">> >>,
      BlockAskQ,
      BlockAskQSpaced,
      <<DirectiveDo, DirectiveEnd>>,
      <<DirectiveAsk, LinkOpen \o <<"x", ")">>, DirectiveEnd>> }

RECURSIVE Flatten(_)
Flatten(segs) == IF segs = <<>> THEN <<>> ELSE Head(segs) \o Flatten(Tail(segs))

SpliceDocs ==
    {Join(Flatten(segs)) : segs \in UNION {[1..n -> Segments] : n \in 1..MaxSegments}}

InitSplice == doc \in SpliceDocs /\ InitEngine

\* what processBlock returns for the k-th block: an artifact name (executed)
\* or a result text (served from the cache)
SpliceFile(k) == IF k % 2 = 1 THEN <<"result_" \o ToString(k)>> ELSE <<"4">>

\* the document is parsed and rewritten (lines 295-299, 381-387)
SpliceDocument ==
    /\ pc = "idle"
    /\ run = 0
    /\ LET parsed == parseBlocks(doc)
           files == [k \in 1..Len(parsed.blocks) |-> SpliceFile(k)]
       IN  /\ parsed.err = ""
           /\ run' = 1
           /\ content' = [content EXCEPT ![1] = doc]
           /\ blocks' = [blocks EXCEPT ![1] = parsed.blocks]
           /\ resultFiles' = [resultFiles EXCEPT ![1] = files]
           /\ doc' = updateContentWithResults(parsed.blocks, doc, files)
    /\ pc' = "spliced"
    /\ UNCHANGED <<engineVars, diskCache, envVars, at, arrival, named, now, errChan, dispatched,
                   ctxDone, ret, docAtReturn, okAtReturn, wk, calls, info, batchVars, loaded, checksums, cacheCopy, lockAt>>

NextSplice == SpliceDocument

SpecSplice == InitSplice /\ [][NextSplice]_vars

\* The lines of a document with every block (the lines from a start marker
\* to the next end marker) replaced by one line, the reference token of the
\* block, and every other line as it is.
RECURSIVE SpliceLines(_, _, _, _)
SpliceLines(lines, k, inBlock, files) ==
    IF lines = <<>> THEN <<>>
    ELSE LET t == TrimSpace(Head(lines))
         IN  IF inBlock
             THEN IF t = DirectiveEnd
                  THEN <<refToken(files[k])>> \o SpliceLines(Tail(lines), k + 1, FALSE, files)
                  ELSE SpliceLines(Tail(lines), k, TRUE, files)
             ELSE IF t \in {DirectiveAsk, DirectiveDo}
                  THEN SpliceLines(Tail(lines), k, TRUE, files)
                  ELSE <<Head(lines)>> \o SpliceLines(Tail(lines), k, FALSE, files)

\* C10: the rewritten text is the original text with each block replaced by
\* one reference token; the text before, between and after the blocks is
\* unmodified and in its order.
C10_ByteExactSplicing ==
    pc = "spliced" =>
        doc = Join(SpliceLines(Split(content[1]), 1, FALSE, resultFiles[1]))

C10_Witness ==
    /\ pc = "spliced"
    /\ Len(blocks[1]) = 2
    /\ blocks[1][1].Start > 0
    /\ blocks[1][2].Start > blocks[1][1].End + 1
    /\ blocks[1][2].End < Len(content[1])
    /\ doc # content[1]

(***************************************************************************)
(* Placement of the results                                                *)
(***************************************************************************)
\* what processBlock returned for block i of call r
ProducedFor(r, i) ==
    LET k == CHOOSE k \in 1..Len(arrival[r]) : arrival[r][k][1] = i
    IN  arrival[r][k][2]

\* C11: whatever the order in which the block goroutines complete, the
\* reference at the i-th block's position of the rewritten document is the
\* one processBlock returned for block i.
C11_OrderedPlacement ==
    \A r \in Runs :
        ret[r] = "nil" =>
            docAtReturn[r] =
                Join(SpliceLines(Split(content[r]), 1, FALSE,
                                 [i \in 1..NumBlocks(r) |-> ProducedFor(r, i)]))

\* a successful call whose second block completed before its first, with
\* different results
C11_Witness ==
    \E r \in Runs :
        /\ ret[r] = "nil"
        /\ NumBlocks(r) = 2
        /\ Len(arrival[r]) = 2
        /\ arrival[r][1][1] = 2
        /\ arrival[r][2][1] = 1
        /\ arrival[r][1][2] # arrival[r][2][2]

(***************************************************************************)
(* Naming as a function of its arguments                                   *)
(***************************************************************************)
\* "test.pml" and "b.pml": two source files with the same name hash
SourceFiles == {SourceFile, <<98, 46, 112, 109, 108>>}

BlockIndexes == {0, 1}

BlockTypes == {DirectiveAsk, DirectiveDo, DirectiveFoo}

\* processBlock names and writes an artifact (lines 439-449)
GenerateName ==
    /\ pc = "idle"
    /\ run = 0
    /\ Len(named) < MaxNames
    /\ \E sourceFile \in SourceFiles, blockIndex \in BlockIndexes, blockType \in BlockTypes :
         LET gen == generateUniqueResultName(sourceFile, blockIndex, blockType,
                                             usedNames, uniqueNameCounters)
         IN  /\ usedNames' = gen.usedNames
             /\ uniqueNameCounters' = gen.counters
             /\ artifacts' = (gen.name :> writeResult([Type |-> blockType, Content |-> <<>>],
                                                      <<"4">>)) @@ artifacts
             /\ named' = Append(named, [name |-> gen.name, engine |-> restarts,
                                        key |-> <<sourceFile, blockIndex, blockType>>,
                                        onStore |-> gen.name \in DOMAIN artifacts])
    /\ UNCHANGED <<doc, cache, diskCache, envVars, callVars, resultFiles, arrival,
                   now, errChan, ctxDone, wk, calls, batchVars, loaded, checksums, cacheCopy, lockAt>>

\* NewParser is called again for the same results area, in the same process
\* (the package-level counters are kept) or in a new one
NewEngine ==
    /\ pc = "idle"
    /\ run = 0
    /\ restarts < MaxRestarts
    /\ usedNames' = {}
    /\ \E sameProcess \in BOOLEAN :
         uniqueNameCounters' = IF sameProcess THEN uniqueNameCounters ELSE EmptyMap
    /\ restarts' = restarts + 1
    /\ UNCHANGED <<doc, artifacts, cache, diskCache, forceProcess, edited, restarted,
                   edits, cancels, callVars, resultFiles, arrival, named, now, errChan,
                   ctxDone, wk, calls, batchVars, loaded, checksums, cacheCopy, lockAt>>

NextNames == GenerateName \/ NewEngine

\* a new engine and an empty results area; no document is processed
InitNames == doc = <<>> /\ InitEngine

SpecNames == InitNames /\ [][NextNames]_vars

C13_NoNameOnStore ==
    \A k \in 1..Len(named) : ~named[k].onStore

(***************************************************************************)
(* Parsing as a function of the document                                   *)
(***************************************************************************)
\* the lines documents are written with
LineAlphabet ==
    { DirectiveAsk, DirectiveDo, DirectiveEnd, TextLine, <<>>,
      <<" ">> \o DirectiveEnd \o <<" ">>,
      <<" ">> \o DirectiveAsk,
      LinkOpen \o <<"x", ")">>,
      DirectiveFoo }

\* k empty blocks in a row, of the types given
RECURSIVE EmptyBlocks(_)
EmptyBlocks(types) ==
    IF types = <<>> THEN <<>>
    ELSE <<Head(types), DirectiveEnd>> \o EmptyBlocks(Tail(types))

ParseDocs ==
    {Join(lines) : lines \in UNION {[1..n -> LineAlphabet] : n \in 0..MaxLines}}
        \cup {Join(EmptyBlocks(types)) :
                types \in UNION {[1..n -> {DirectiveAsk, DirectiveDo}] : n \in 1..MaxEmptyBlocks}}

InitParse == doc \in ParseDocs /\ InitEngine

\* the document is read and parsed (lines 286-299); ret holds the error
ParseDocument ==
    /\ pc = "idle"
    /\ run = 0
    /\ LET parsed == parseBlocks(doc)
       IN  /\ run' = 1
           /\ content' = [content EXCEPT ![1] = doc]
           /\ blocks' = [blocks EXCEPT ![1] = parsed.blocks]
           /\ ret' = [ret EXCEPT ![1] = parsed.err]
    /\ pc' = "parsed"
    /\ UNCHANGED <<doc, engineVars, diskCache, envVars, at, resultFiles, arrival, named, now,
                   errChan, dispatched, ctxDone, docAtReturn, okAtReturn, wk, calls, info,
                   batchVars, loaded, checksums, cacheCopy, lockAt>>

NextParse == ParseDocument

SpecParse == InitParse /\ [][NextParse]_vars

\* A forward scan over the lines with the states Outside and InBlock: the
\* error it ends with, or "" when it ends Outside without one.
RECURSIVE ScanLines(_, _)
ScanLines(lines, inBlock) ==
    IF lines = <<>> THEN (IF inBlock THEN "unterminated" ELSE "")
    ELSE LET t == TrimSpace(Head(lines))
         IN  IF t \in {DirectiveAsk, DirectiveDo}
             THEN IF inBlock THEN "nested" ELSE ScanLines(Tail(lines), TRUE)
             ELSE IF t = DirectiveEnd
             THEN IF inBlock THEN ScanLines(Tail(lines), FALSE) ELSE "stray"
             ELSE ScanLines(Tail(lines), inBlock)

\* C14: parseBlocks returns an error exactly when a start marker occurs in a
\* block, a bare end marker occurs outside a block, or the input ends in a
\* block; the error is the one of the first of these.
C14_ParserAcceptance ==
    pc = "parsed" => ret[1] = ScanLines(Split(content[1]), FALSE)

\* a document of MaxLines lines has been rejected for a start marker in a block
C14_Witness ==
    /\ pc = "parsed"
    /\ ret[1] = "nested"
    /\ ScanLines(Split(content[1]), FALSE) = "nested"
    /\ Len(Split(content[1])) = MaxLines

\* the lines are start markers and end markers in turn
IsEmptyBlockRun(lines) ==
    /\ Len(lines) > 0
    /\ Len(lines) % 2 = 0
    /\ \A k \in 1..Len(lines) :
          IF k % 2 = 1 THEN TrimSpace(lines[k]) \in {DirectiveAsk, DirectiveDo}
          ELSE TrimSpace(lines[k]) = DirectiveEnd

\* C15: a start marker immediately followed by an end marker parses into one
\* block with empty content, and several of them in a row into one block each.
C15_EmptyBlocksValid ==
    (pc = "parsed" /\ IsEmptyBlockRun(Split(content[1]))) =>
        /\ ret[1] = ""
        /\ Len(blocks[1]) * 2 = Len(Split(content[1]))
        /\ \A k \in 1..Len(blocks[1]) :
              /\ blocks[1][k].Content = <<>>
              /\ blocks[1][k].Type = TrimSpace(Split(content[1])[2 * k - 1])

C15_Witness ==
    /\ pc = "parsed"
    /\ IsEmptyBlockRun(Split(content[1]))
    /\ Len(blocks[1]) = MaxEmptyBlocks

(***************************************************************************)
(* Documents that are not processed                                        *)
(***************************************************************************)
\* a line of the text is a directive other than :ask, :do and the end marker
\* (a reference :--(r/...) is none)
HasUnknownDirective(text) ==
    \E k \in 1..Len(Split(text)) :
        LET t == TrimSpace(Split(text)[k])
        IN  /\ t # <<>>
            /\ t[1] = ":"
            /\ t \notin {DirectiveAsk, DirectiveDo}
            /\ ~HasPrefix(t, DirectiveEnd)

\* C16: ProcessFile on a document with a directive other than the start
\* markers returns an error and makes no executor call.
C16_UnknownDirectiveFatal ==
    \A r \in Runs :
        (Began(r) /\ HasUnknownDirective(content[r])) =>
            /\ \A i \in Slots : calls[r][i] = 0
            /\ ret[r] # "nil"

\* the document of call r does not parse
Unparsable(r) == Began(r) /\ ScanLines(Split(content[r]), FALSE) # ""

\* C17: when parseBlocks fails, ProcessFile returns the error before any
\* executor call, and the step leaves the document, the results area, the
\* cache of the path and its snapshot as they were.
C17_ParseErrorsFatal ==
    /\ [](\A r \in Runs :
            Unparsable(r) =>
                /\ ret[r] = "parse"
                /\ docAtReturn[r] = content[r]
                /\ \A i \in Slots : calls[r][i] = 0 /\ wk[r][i] = "none")
    /\ [][(run' = run + 1 /\ ScanLines(Split(doc), FALSE) # "") =>
              /\ doc' = doc
              /\ artifacts' = artifacts
              /\ cache' = cache
              /\ diskCache' = diskCache]_vars

\* a call on a document that does not parse has returned, after a successful
\* call that left block results in the cache and artifacts in the results area
C17_Witness ==
    \E r \in Runs :
        /\ r > 1 /\ r = run /\ pc = "idle"
        /\ ret[r - 1] = "nil"
        /\ Unparsable(r)
        /\ ret[r] = "parse"
        /\ cache # <<>>
        /\ cache[1].Blocks # EmptyMap
        /\ artifacts # EmptyMap

(***************************************************************************)
(* The cache over process runs                                             *)
(***************************************************************************)
\* what a process may find of the snapshot an earlier one saved
SnapshotStates == {"valid", "missing", "unreadable", "corrupt"}

\* the hours between the end of a process and the start of the next
Elapsed == {0, RetentionHours, RetentionHours + 1}

CacheDocs ==
    { Join(DocLines(<<BlockAskQ>>)),
      Join(DocLines(<<BlockAskQ, BlockDoP>>)),
      Join(DocLines(<<BlockAskQ, BlockAskQSpaced>>)) }

InitCache == doc \in CacheDocs /\ InitEngine

\* the user writes the document again as it was before the last call
RestoreDocument ==
    /\ pc = "idle"
    /\ run \in 1..(MaxRuns - 1)
    /\ edits < MaxEdits
    /\ doc # content[run]
    /\ doc' = content[run]
    /\ edited' = TRUE
    /\ edits' = edits + 1
    /\ UNCHANGED <<engineVars, diskCache, forceProcess, restarted, restarts, cancels,
                   callVars, resultFiles, arrival, named, now, errChan, ctxDone, wk, calls,
                   batchVars, loaded, checksums, cacheCopy, lockAt>>

\* The process ends; some hours later, with the snapshot file as it was saved,
\* removed or overwritten with text that is not JSON, a new process calls
\* NewParser, which calls loadCache.
NewProcess ==
    /\ pc = "idle"
    /\ run \in 1..(MaxRuns - 1)
    /\ restarts < MaxRestarts
    /\ \E hours \in Elapsed, found \in SnapshotStates :
         /\ now' = now + hours
         /\ diskCache' = IF found = "valid" THEN diskCache
                         ELSE [state |-> found, data |-> diskCache.data]
         /\ cache' = loadCache(diskCache', now')
    /\ usedNames' = {}
    /\ uniqueNameCounters' = EmptyMap
    /\ wk' = [r \in Runs |-> [i \in Slots |->
                IF Live(wk[r][i]) THEN "dead" ELSE wk[r][i]]]
    /\ restarted' = TRUE
    /\ restarts' = restarts + 1
    /\ UNCHANGED <<doc, artifacts, forceProcess, edited, edits, cancels,
                   callVars, resultFiles, arrival, named, errChan, ctxDone, calls, batchVars, loaded, checksums, cacheCopy, lockAt>>

NextCache ==
    \/ ProcessFileBegin
    \/ DispatchBlock
    \/ AwaitDone
    \/ WriteBack
    \/ SaveAndReturn
    \/ \E r \in Runs, i \in Slots : WorkerBegin(r, i)
    \/ \E r \in Runs, i \in Slots : ExecutorFails(r, i)
    \/ \E r \in Runs, i \in Slots : ExecutorAnswers(r, i)
    \/ RestoreDocument
    \/ NewProcess

SpecCache == InitCache /\ [][NextCache]_vars

\* call r is the first call of a process whose loadCache found the snapshot
\* file missing, unreadable or not JSON
AfterFailedLoad(r) ==
    Began(r) /\ info[r].snapshot \in {"missing", "unreadable", "corrupt"}

Expired(pathCache, t) ==
    IF pathCache = <<>> THEN {}
    ELSE {k \in DOMAIN pathCache[1].Blocks :
             t - pathCache[1].Blocks[k].ModTime > RetentionHours}

\* C19: after loadCache no block entry older than the retention window is in
\* the engine's cache; in the call that follows, a block whose entry of the
\* snapshot is that old is served from the cache only when the same call has
\* executed a block with the same checksum.
C19_PrunedAtLoad ==
    /\ (restarted /\ pc = "idle") => Expired(cache, now) = {}
    /\ \A r \in Runs :
          (r = run /\ pc # "idle" /\ info[r].restarted) =>
              \A i \in 1..NumBlocks(r) :
                  (BlockKey(r, i) \in Expired(diskCache.data, now) /\ wk[r][i] = "hit")
                      => \E j \in 1..NumBlocks(r) :
                            BlockKey(r, j) = BlockKey(r, i) /\ calls[r][j] = 1

\* a block whose entry of the snapshot is past the retention window has been
\* executed again by the call after the load
C19_Witness ==
    \E r \in Runs :
        /\ r = run /\ pc = "wait" /\ info[r].restarted
        /\ info[r].snapshot = "valid"
        /\ \E i \in 1..NumBlocks(r) :
              /\ BlockKey(r, i) \in Expired(diskCache.data, now)
              /\ wk[r][i] = "ok"
              /\ calls[r][i] = 1

\* C20: after a new engine has loaded a saved cache, a document entry whose
\* ModTime is older than the retention window is not in the loaded cache, and
\* a document entry whose ModTime is within it is.
C20_ExpiredEntryAbsent ==
    (restarted /\ pc = "idle" /\ diskCache.state = "valid" /\ diskCache.data # <<>>) =>
        IF now - diskCache.data[1].ModTime > RetentionHours
        THEN cache = <<>>
        ELSE cache # <<>> /\ cache[1].Checksum = diskCache.data[1].Checksum

(***************************************************************************)
(* ProcessFile called from several goroutines on one path                  *)
(* (TestConcurrentFileAccess): call c runs the statements of ProcessFile   *)
(* with at[c] as its position; the block goroutines are those above.       *)
(***************************************************************************)
ConcurrentDocs ==
    { Join(<<DirectiveAsk, <<"q">>, DirectiveEnd>>),
      Join(DocLines(<<BlockAskQ, BlockDoP>>)) }

InitConcurrent == doc \in ConcurrentDocs /\ InitEngine

\* call c returns value v
ReturnOf(c, v) ==
    /\ ret' = [ret EXCEPT ![c] = v]
    /\ docAtReturn' = [docAtReturn EXCEPT ![c] = doc]
    /\ okAtReturn' = [okAtReturn EXCEPT ![c] = {i \in Slots : wk[c][i] \in {"ok", "hit"}}]
    /\ at' = [at EXCEPT ![c] = "done"]

\* a goroutine calls ProcessFile: read, checksum, parse, initialise the cache
\* entry (lines 287-324); no lock of the path is taken before the read
BeginOf ==
    /\ run < MaxRuns
    /\ LET c == run + 1
           fileChecksum == calculateChecksum(doc)
           parsed == parseBlocks(doc)
           entry == initCacheEntry(cache, fileChecksum, now)
       IN  /\ run' = c
           /\ content' = [content EXCEPT ![c] = doc]
           /\ info' = [info EXCEPT ![c] =
                         [force |-> forceProcess,
                          cold |-> entry[1].Blocks = EmptyMap,
                          edited |-> FALSE,
                          restarted |-> FALSE,
                          snapshot |-> "none"]]
           /\ IF parsed.err # ""
              THEN /\ ReturnOf(c, "parse")
                   /\ UNCHANGED <<cache, blocks>>
              ELSE /\ blocks' = [blocks EXCEPT ![c] = parsed.blocks]
                   /\ cache' = entry
                   /\ at' = [at EXCEPT ![c] =
                               IF Len(parsed.blocks) = 0 THEN "wait" ELSE "dispatch"]
                   /\ UNCHANGED <<ret, docAtReturn, okAtReturn>>
    /\ UNCHANGED <<doc, artifacts, diskCache, usedNames, uniqueNameCounters, envVars, pc,
                   resultFiles, arrival, named, now, errChan, dispatched, ctxDone, wk, calls,
                   batchVars, loaded, checksums, cacheCopy, lockAt>>

\* one iteration of the dispatch loop of call c (lines 330-356)
DispatchOf(c) ==
    /\ at[c] = "dispatch"
    /\ LET i == dispatched[c] + 1
       IN  /\ wk' = [wk EXCEPT ![c][i] = "spawned"]
           /\ dispatched' = [dispatched EXCEPT ![c] = i]
           /\ at' = [at EXCEPT ![c] = IF i = Len(blocks[c]) THEN "wait" ELSE @]
    /\ UNCHANGED <<doc, engineVars, diskCache, envVars, pc, run, content, blocks,
                   resultFiles, arrival, named, now, errChan, ctxDone, ret, docAtReturn,
                   okAtReturn, calls, info, batchVars, loaded, checksums, cacheCopy, lockAt>>

\* select, case <-done, of call c (lines 370-379)
AwaitDoneOf(c) ==
    /\ at[c] = "wait"
    /\ doneClosed(c)
    /\ IF hasErrors(errChan[c])
       THEN ReturnOf(c, "multi")
       ELSE /\ at' = [at EXCEPT ![c] = "write"]
            /\ UNCHANGED <<ret, docAtReturn, okAtReturn>>
    /\ UNCHANGED <<doc, engineVars, diskCache, envVars, pc, run, content, blocks,
                   resultFiles, arrival, named, now, errChan, dispatched, ctxDone, wk, calls,
                   info, batchVars, loaded, checksums, cacheCopy, lockAt>>

\* updateContentWithResults and os.WriteFile of call c (lines 381-387)
WriteBackOf(c) ==
    /\ at[c] = "write"
    /\ doc' = updateContentWithResults(blocks[c], content[c],
                  [i \in 1..Len(blocks[c]) |-> resultFiles[c][i]])
    /\ at' = [at EXCEPT ![c] = "save"]
    /\ UNCHANGED <<engineVars, diskCache, envVars, pc, run, content, blocks, resultFiles,
                   arrival, named, now, errChan, dispatched, ctxDone, ret, docAtReturn,
                   okAtReturn, wk, calls, info, batchVars, loaded, checksums, cacheCopy, lockAt>>

\* saveCache and return nil of call c (lines 389-394)
SaveAndReturnOf(c) ==
    /\ at[c] = "save"
    /\ diskCache' = saveCache(cache)
    /\ ReturnOf(c, "nil")
    /\ UNCHANGED <<doc, engineVars, envVars, pc, run, content, blocks, resultFiles,
                   arrival, named, now, errChan, dispatched, ctxDone, wk, calls, info,
                   batchVars, loaded, checksums, cacheCopy, lockAt>>

\* the executor of TestConcurrentFileAccess returns its response, never an error
NextConcurrent ==
    \/ BeginOf
    \/ \E c \in Runs : DispatchOf(c)
    \/ \E c \in Runs : AwaitDoneOf(c)
    \/ \E c \in Runs : WriteBackOf(c)
    \/ \E c \in Runs : SaveAndReturnOf(c)
    \/ \E c \in Runs, i \in Slots : WorkerBegin(c, i)
    \/ \E c \in Runs, i \in Slots : ExecutorAnswers(c, i)

SpecConcurrent == InitConcurrent /\ [][NextConcurrent]_vars

\* call c has read the document and has not yet written its rewrite
BetweenReadAndWrite(c) == at[c] \in {"dispatch", "wait", "write"}

\* C21: at any time at most one call on the path is between reading the
\* document and writing its rewrite.
C21_PerPathExclusion ==
    \A c, d \in Runs :
        (BetweenReadAndWrite(c) /\ BetweenReadAndWrite(d)) => c = d

\* C22: when the calls made concurrently on a one-block document with a cold
\* cache and force off have all returned, all have returned nil and the
\* executor was called exactly once in total.
C22_OneExecutorCall ==
    (/\ \A c \in Runs : at[c] = "done"
     /\ NumBlocks(1) = 1
     /\ ~info[1].force /\ info[1].cold)
        => /\ \A c \in Runs : ret[c] = "nil"
           /\ calls[1][1] + calls[2][1] = 1

(***************************************************************************)
(* ProcessAllFiles                                                         *)
(*                                                                         *)
(* An error is modelled by what errors.Is can see of it: "deadline" is     *)
(* context.DeadlineExceeded or wraps it with %w, "canceled" likewise for   *)
(* context.Canceled, "opaque" is an error that wraps neither.  The files   *)
(* of the batch are distinct documents with a cold cache; the executor     *)
(* answers, or returns ctx.Err() once the context is done (mockLLM.Ask).   *)
(***************************************************************************)
\* goroutines of files that hold a slot of ProcessAllFiles' semaphore
FileActive(f) == fileAt[f] \notin {"none", "done"}

\* executor calls in flight, over all files and blocks
InFlight == Cardinality({<<f, i>> \in Files \X BatchSlots : fileWk[f][i] = "asking"})

\* block goroutines of file f inside their semaphore section
FileSemaphoreHeld(f) == Cardinality({i \in BatchSlots : fileWk[f][i] = "asking"})

\* cancel(): the derived context is cancelled unless it is done already
cancelCtx(err) == IF err = "" THEN "canceled" ELSE err

\* the deadline of the caller's context expires
DeadlineExpires ==
    /\ allRet = "none"
    /\ allCtx = ""
    /\ allCtx' = "deadline"
    /\ pendingAtExpiry' = Cardinality({f \in Files : fileAt[f] # "done"})
    /\ UNCHANGED <<mainAt, nextFile, fileAt, fileWk, allErrChan, allRet,
                   fileVars>>

\* the loop's select (lines 28-33): ctx.Done() or default
LoopSelect ==
    /\ mainAt = "loop"
    /\ nextFile <= NumFiles
    /\ mainAt' = IF allCtx # "" THEN "drain" ELSE "acquire"
    /\ UNCHANGED <<nextFile, fileAt, fileWk, allErrChan, allCtx, pendingAtExpiry, allRet,
                   fileVars>>

\* semaphore <- struct{}{} and the go statement (lines 34-59)
LoopSpawn ==
    /\ mainAt = "acquire"
    /\ Cardinality({f \in Files : FileActive(f)}) < NumCPU
    /\ fileAt' = [fileAt EXCEPT ![nextFile] = "delay"]
    /\ nextFile' = nextFile + 1
    /\ mainAt' = "loop"
    /\ UNCHANGED <<fileWk, allErrChan, allCtx, pendingAtExpiry, allRet,
                   fileVars>>

\* the loop has ended: the caller is at the last select (lines 62-78)
LoopEnd ==
    /\ mainAt = "loop"
    /\ nextFile > NumFiles
    /\ mainAt' = "select"
    /\ UNCHANGED <<nextFile, fileAt, fileWk, allErrChan, allCtx, pendingAtExpiry, allRet,
                   fileVars>>

\* wg.Wait() has returned
allDone == \A f \in Files : ~FileActive(f)

\* "Wait for running goroutines to finish", return ctx.Err() (lines 30-32, 71-73)
DrainReturn ==
    /\ mainAt = "drain"
    /\ allDone
    /\ allRet' = allCtx
    /\ mainAt' = "returned"
    /\ UNCHANGED <<nextFile, fileAt, fileWk, allErrChan, allCtx, pendingAtExpiry,
                   fileVars>>

\* the last select, case <-ctx.Done()
SelectCtxDone ==
    /\ mainAt = "select"
    /\ allCtx # ""
    /\ mainAt' = "drain"
    /\ UNCHANGED <<nextFile, fileAt, fileWk, allErrChan, allCtx, pendingAtExpiry, allRet,
                   fileVars>>

\* the last select, case err := <-errChan; the deferred cancel() runs
SelectErr ==
    /\ mainAt = "select"
    /\ allErrChan # <<>>
    /\ allRet' = Head(allErrChan)
    /\ allErrChan' = Tail(allErrChan)
    /\ allCtx' = cancelCtx(allCtx)
    /\ mainAt' = "returned"
    /\ UNCHANGED <<nextFile, fileAt, fileWk, pendingAtExpiry,
                   fileVars>>

\* the last select, case <-done; the deferred cancel() runs
SelectDone ==
    /\ mainAt = "select"
    /\ allDone
    /\ allRet' = "nil"
    /\ allCtx' = cancelCtx(allCtx)
    /\ mainAt' = "returned"
    /\ UNCHANGED <<nextFile, fileAt, fileWk, allErrChan, pendingAtExpiry,
                   fileVars>>

\* the goroutine of file f, first select (lines 40-46): case <-ctx.Done()
FileDelayCtxDone(f) ==
    /\ fileAt[f] = "delay"
    /\ allCtx # ""
    /\ allErrChan' = Append(allErrChan, allCtx)
    /\ fileAt' = [fileAt EXCEPT ![f] = "done"]
    /\ UNCHANGED <<mainAt, nextFile, fileWk, allCtx, pendingAtExpiry, allRet,
                   fileVars>>

\* the goroutine of file f, first select: case <-time.After
FileDelayOver(f) ==
    /\ fileAt[f] = "delay"
    /\ fileAt' = [fileAt EXCEPT ![f] = "check"]
    /\ UNCHANGED <<mainAt, nextFile, fileWk, allErrChan, allCtx, pendingAtExpiry, allRet,
                   fileVars>>

\* the goroutine of file f, second select (lines 48-57): ctx.Done() or the
\* call of ProcessFile
FileCheck(f) ==
    /\ fileAt[f] = "check"
    /\ IF allCtx # ""
       THEN /\ allErrChan' = Append(allErrChan, allCtx)
            /\ fileAt' = [fileAt EXCEPT ![f] = "done"]
       ELSE /\ fileAt' = [fileAt EXCEPT ![f] = "dispatch"]
            /\ UNCHANGED allErrChan
    /\ UNCHANGED <<mainAt, nextFile, fileWk, allCtx, pendingAtExpiry, allRet,
                   fileVars>>

\* ProcessFile(ctx, f) returned err: cancel() and the send to errChan (lines
\* 53-56)
FileFailed(f, err) ==
    /\ allCtx' = cancelCtx(allCtx)
    /\ allErrChan' = Append(allErrChan, err)
    /\ fileAt' = [fileAt EXCEPT ![f] = "done"]

\* ProcessFile of file f, one iteration of its dispatch loop
\* (processfile.go 330-356)
FileDispatch(f) ==
    /\ fileAt[f] = "dispatch"
    /\ IF allCtx # ""
       THEN /\ FileFailed(f, allCtx)
            /\ UNCHANGED fileWk
       ELSE LET i == Cardinality({k \in BatchSlots : fileWk[f][k] # "none"}) + 1
            IN  /\ fileWk' = [fileWk EXCEPT ![f][i] = "spawned"]
                /\ fileAt' = [fileAt EXCEPT ![f] =
                                IF i = FileBlocks[f] THEN "wait" ELSE @]
                /\ UNCHANGED <<allErrChan, allCtx>>
    /\ UNCHANGED <<mainAt, nextFile, pendingAtExpiry, allRet,
                   fileVars>>

fileDoneClosed(f) == \A i \in 1..FileBlocks[f] : fileWk[f][i] \in {"ok", "err"}

\* ProcessFile of file f, its select, case <-ctx.Done() (processfile.go 367-369)
FileAwaitCancelled(f) ==
    /\ fileAt[f] = "wait"
    /\ allCtx # ""
    /\ FileFailed(f, allCtx)
    /\ UNCHANGED <<mainAt, nextFile, fileWk, pendingAtExpiry, allRet,
                   fileVars>>

\* ProcessFile of file f, its select, case <-done (processfile.go 370-394):
\* "multiple errors: %v" wraps nothing; without errors the rewrite is written
\* and nil returned
FileAwaitDone(f) ==
    /\ fileAt[f] = "wait"
    /\ fileDoneClosed(f)
    /\ IF \E i \in 1..FileBlocks[f] : fileWk[f][i] = "err"
       THEN FileFailed(f, "opaque")
       ELSE /\ fileAt' = [fileAt EXCEPT ![f] = "done"]
            /\ UNCHANGED <<allErrChan, allCtx>>
    /\ UNCHANGED <<mainAt, nextFile, fileWk, pendingAtExpiry, allRet,
                   fileVars>>

\* the goroutine of block i of file f enters its semaphore section and
\* processBlock: ctx.Err(), then the executor (processfile.go 340-424)
FileWorkerBegin(f, i) ==
    /\ fileWk[f][i] = "spawned"
    /\ FileSemaphoreHeld(f) < SemaphoreSize
    /\ fileWk' = [fileWk EXCEPT ![f][i] = IF allCtx # "" THEN "err" ELSE "asking"]
    /\ UNCHANGED <<mainAt, nextFile, fileAt, allErrChan, allCtx, pendingAtExpiry, allRet,
                   fileVars>>

\* the executor returns the response
FileExecutorAnswers(f, i) ==
    /\ fileWk[f][i] = "asking"
    /\ fileWk' = [fileWk EXCEPT ![f][i] = "ok"]
    /\ UNCHANGED <<mainAt, nextFile, fileAt, allErrChan, allCtx, pendingAtExpiry, allRet,
                   fileVars>>

\* the executor sees the context done and returns ctx.Err() (part_006 26-28)
FileExecutorCancelled(f, i) ==
    /\ fileWk[f][i] = "asking"
    /\ allCtx # ""
    /\ fileWk' = [fileWk EXCEPT ![f][i] = "err"]
    /\ UNCHANGED <<mainAt, nextFile, fileAt, allErrChan, allCtx, pendingAtExpiry, allRet,
                   fileVars>>

NextBatch ==
    \/ DeadlineExpires
    \/ LoopSelect
    \/ LoopSpawn
    \/ LoopEnd
    \/ DrainReturn
    \/ SelectCtxDone
    \/ SelectErr
    \/ SelectDone
    \/ \E f \in Files : FileDelayCtxDone(f)
    \/ \E f \in Files : FileDelayOver(f)
    \/ \E f \in Files : FileCheck(f)
    \/ \E f \in Files : FileDispatch(f)
    \/ \E f \in Files : FileAwaitCancelled(f)
    \/ \E f \in Files : FileAwaitDone(f)
    \/ \E f \in Files, i \in BatchSlots : FileWorkerBegin(f, i)
    \/ \E f \in Files, i \in BatchSlots : FileExecutorAnswers(f, i)
    \/ \E f \in Files, i \in BatchSlots : FileExecutorCancelled(f, i)

InitAll == doc = <<>> /\ InitEngine

SpecBatch == InitAll /\ [][NextBatch]_vars

\* C23: the executor calls in flight, over all documents and blocks of the
\* batch, never exceed the capacity of the semaphore the documents share.
C23_AggregateBound == InFlight <= NumCPU

\* C24: when the deadline expired while files were still to be processed,
\* ProcessAllFiles returns an error that is or wraps context.DeadlineExceeded.
C24_DeadlineReported ==
    (allRet # "none" /\ pendingAtExpiry > 0) => allRet = "deadline"

(***************************************************************************)
(* A results area that cannot be written                                   *)
(***************************************************************************)
\* The executor returns a result, the artifact is named, and writeResult
\* fails in os.WriteFile: processBlock returns "failed to write result"
\* before the cache entry of the block is updated (lines 433-449); the
\* goroutine sends the error to errChan (lines 345-348).
WriteResultFails(r, i) ==
    /\ wk[r][i] = "asking"
    /\ \E result \in Answers :
         LET block == blocks[r][i]
             gen == generateUniqueResultName(SourceFile, i - 1, block.Type,
                                             usedNames, uniqueNameCounters)
         IN  /\ usedNames' = gen.usedNames
             /\ uniqueNameCounters' = gen.counters
             /\ named' = Append(named, [name |-> gen.name, engine |-> restarts,
                                        key |-> <<SourceFile, i - 1, block.Type>>,
                                        onStore |-> gen.name \in DOMAIN artifacts])
             /\ errChan' = [errChan EXCEPT ![r] =
                               @ \cup {[block |-> i, kind |-> "write", result |-> result]}]
    /\ wk' = [wk EXCEPT ![r][i] = "err"]
    /\ UNCHANGED <<doc, artifacts, cache, diskCache, envVars, callVars, resultFiles, arrival,
                   ctxDone, calls, now, batchVars, loaded, checksums, cacheCopy, lockAt>>

PersistDocs ==
    { Join(DocLines(<<BlockAskQ>>)),
      Join(DocLines(<<BlockAskQ, BlockDoP>>)) }

InitPersist == doc \in PersistDocs /\ InitEngine

NextPersist ==
    \/ ProcessFileBegin
    \/ DispatchBlock
    \/ AwaitDone
    \/ WriteBack
    \/ SaveAndReturn
    \/ \E r \in Runs, i \in Slots : WorkerBegin(r, i)
    \/ \E r \in Runs, i \in Slots : ExecutorAnswers(r, i)
    \/ \E r \in Runs, i \in Slots : WriteResultFails(r, i)

SpecPersist == InitPersist /\ [][NextPersist]_vars

\* C25: when the artifact of a block could not be written, the call returns
\* nil and the document it leaves holds the raw result text of that block as
\* a line of its own.
C25_InlineOnPersistFailure ==
    \A r \in Runs :
        Returned(r) =>
            \A e \in errChan[r] :
                e.kind = "write" =>
                    /\ ret[r] = "nil"
                    /\ \E k \in DOMAIN Split(docAtReturn[r]) :
                          Split(docAtReturn[r])[k] = e.result

(***************************************************************************)
(* Force mode                                                              *)
(***************************************************************************)
\* SetForceProcess, called between two calls of ProcessFile (the flag is
\* read by the block goroutines without a lock)
SetForceProcess ==
    /\ pc = "idle"
    /\ \E force \in BOOLEAN :
         /\ force # forceProcess
         /\ forceProcess' = force
    /\ UNCHANGED <<doc, engineVars, diskCache, edited, restarted, edits, restarts, cancels,
                   callVars, resultFiles, arrival, named, now, errChan, ctxDone, wk, calls,
                   batchVars, loaded, checksums, cacheCopy, lockAt>>

InitForce == doc \in CacheDocs /\ InitEngine

NextForce ==
    \/ SetForceProcess
    \/ ProcessFileBegin
    \/ DispatchBlock
    \/ AwaitDone
    \/ WriteBack
    \/ SaveAndReturn
    \/ \E r \in Runs, i \in Slots : WorkerBegin(r, i)
    \/ \E r \in Runs, i \in Slots : ExecutorFails(r, i)
    \/ \E r \in Runs, i \in Slots : ExecutorAnswers(r, i)
    \/ RestoreDocument

SpecForce == InitForce /\ [][NextForce]_vars

\* C26: with force processing set no block is served from the cache, and a
\* successful ProcessFile has called the executor exactly once for each
\* block of the document.
C26_ForceIgnoresCache ==
    \A r \in Runs :
        (Began(r) /\ info[r].force) =>
            /\ \A i \in 1..NumBlocks(r) : wk[r][i] # "hit"
            /\ ret[r] = "nil" => \A i \in 1..NumBlocks(r) : calls[r][i] = 1

\* a forced call on a document of two blocks that the cache of the path held
\* both results of has executed both again
C26_Witness ==
    \E r \in Runs :
        /\ r > 1
        /\ info[r].force /\ ~info[r].cold
        /\ ret[r - 1] = "nil" /\ content[r] = content[r - 1]
        /\ ret[r] = "nil"
        /\ NumBlocks(r) = 2
        /\ \A i \in 1..2 : calls[r][i] = 1

(***************************************************************************)
(* Blocks, artifacts and tokens after a successful call                    *)
(***************************************************************************)
RECURSIVE DropTrailingBlank(_)
DropTrailingBlank(lines) ==
    IF lines # <<>> /\ TrimSpace(lines[Len(lines)]) = <<>>
    THEN DropTrailingBlank(SubSeq(lines, 1, Len(lines) - 1))
    ELSE lines

\* The question texts of a document, block by block: the lines between a
\* start marker and the next end marker as they are written, without the
\* blank lines before the end marker.
RECURSIVE QuestionTexts(_, _, _)
QuestionTexts(lines, inBlock, cur) ==
    IF lines = <<>> THEN <<>>
    ELSE LET t == TrimSpace(Head(lines))
         IN  IF inBlock
             THEN IF t = DirectiveEnd
                  THEN <<Join(DropTrailingBlank(cur))>> \o QuestionTexts(Tail(lines), FALSE, <<>>)
                  ELSE QuestionTexts(Tail(lines), TRUE, Append(cur, Head(lines)))
             ELSE IF t \in {DirectiveAsk, DirectiveDo}
                  THEN QuestionTexts(Tail(lines), TRUE, <<>>)
                  ELSE QuestionTexts(Tail(lines), FALSE, <<>>)

\* call r has just returned: no later call has begun
JustReturned(r) == r = run /\ pc = "idle" /\ Returned(r)

\* block i of call r has an artifact of its own: processBlock returned a name,
\* no other block of the call got the same, the artifact of that name holds
\* the block's question text and type and the answer the cache has for it
HasOwnArtifact(r, i) ==
    /\ Len(ProducedFor(r, i)) = 1
    /\ ProducedFor(r, i)[1] \in DOMAIN artifacts
    /\ \A j \in 1..NumBlocks(r) : j # i => ProducedFor(r, j) # ProducedFor(r, i)
    /\ LET artifact == artifacts[ProducedFor(r, i)[1]]
       IN  /\ artifact.question = QuestionTexts(Split(content[r]), FALSE, <<>>)[i]
           /\ artifact.type = blocks[r][i].Type
           /\ artifact.answer \in Answers
           /\ \E j \in 1..NumBlocks(r) :
                 /\ SameBlock(blocks[r][i], blocks[r][j])
                 /\ calls[r][j] = 1
                 /\ artifacts[ProducedFor(r, j)[1]].answer =
                        cache[1].Blocks[BlockKey(r, i)].Result

\* the document call r left is the one it read with the span of each block
\* replaced by the token of what processBlock returned for the block
BlocksReplaced(r) ==
    docAtReturn[r] =
        Join(SpliceLines(Split(content[r]), 1, FALSE,
                         [i \in 1..NumBlocks(r) |-> ProducedFor(r, i)]))

ResultAlphabet == {"4", "\"", "\\", NL, InvalidByte}

ResultTexts ==
    {<<>>} \cup {<<a>> : a \in ResultAlphabet}
           \cup {<<a, b>> : a \in ResultAlphabet, b \in {"4", "\"", "n"}}

\* the ages, in hours, of the block entries when the cache is saved
BlockAges == {0, 1}

\* caches of the path with up to two block entries
RoundTripCaches ==
    LET key1 == calculateBlockChecksum([Type |-> DirectiveAsk, Content |-> <<<<"q">>>>])
        key2 == calculateBlockChecksum([Type |-> DirectiveDo, Content |-> <<<<"p">>>>])
        one(k, res) == k :> [Checksum |-> k, Result |-> res, ModTime |-> 1]
        old(k, res, age) == k :> [Checksum |-> k, Result |-> res, ModTime |-> 1 - age]
    IN  {<<[Checksum |-> <<"c">>, ModTime |-> 1, Blocks |-> EmptyMap]>>}
        \cup {<<[Checksum |-> <<"c">>, ModTime |-> 1, Blocks |-> one(key1, res)]>> :
                 res \in ResultTexts}
        \cup {<<[Checksum |-> <<"c">>, ModTime |-> 1,
                 Blocks |-> one(key1, res) @@ old(key2, <<"4">>, age)]>> :
                 res \in ResultTexts, age \in BlockAges}

\* parser.cache[path] = CacheEntry{...}
TestSetCache ==
    /\ pc = "idle" /\ run = 0
    /\ cache = <<>>
    /\ diskCache.state = "missing"
    /\ cache' \in RoundTripCaches
    /\ now' = 1
    /\ UNCHANGED <<doc, artifacts, usedNames, uniqueNameCounters, diskCache, envVars,
                   callVars, resultFiles, arrival, named, errChan, ctxDone, wk, calls,
                   batchVars, loaded, checksums, cacheCopy, lockAt>>

\* parser.saveCache()
TestSaveCache ==
    /\ cache # <<>>
    /\ diskCache.state = "missing"
    /\ diskCache' = saveCache(cache)
    /\ UNCHANGED <<doc, engineVars, envVars, callVars, resultFiles, arrival, named, now,
                   errChan, ctxDone, wk, calls, batchVars, loaded, checksums, cacheCopy, lockAt>>

\* some hours later: parser2 := NewParser(...); parser2.loadCache()
TestLoadCache ==
    /\ diskCache.state = "valid"
    /\ restarts < MaxRestarts
    /\ \E hours \in Elapsed :
         /\ now' = now + hours
         /\ loaded' = loadCache(diskCache, now')
    /\ restarts' = restarts + 1
    /\ UNCHANGED <<doc, engineVars, diskCache, forceProcess, edited, restarted, edits,
                   cancels, callVars, resultFiles, arrival, named, errChan, ctxDone, wk,
                   calls, batchVars, checksums, cacheCopy, lockAt>>

NextRoundTrip ==
    \/ TestSetCache
    \/ TestSaveCache
    \/ TestLoadCache

InitRoundTrip == doc = <<>> /\ InitEngine

SpecRoundTrip == InitRoundTrip /\ [][NextRoundTrip]_vars

\* the second engine has loaded the snapshot of the first
RoundTripDone == diskCache.state = "valid" /\ restarts > 0

ValidUTF8(text) == \A k \in DOMAIN text : text[k] # InvalidByte

\* the second engine has the document entry of the first, and of its block
\* entries those that are not expired, and no other
SameEntries ==
    /\ loaded # <<>>
    /\ loaded[1].Checksum = cache[1].Checksum
    /\ DOMAIN loaded[1].Blocks = DOMAIN cache[1].Blocks \ Expired(cache, now)

NameFor(sourceFile) ==
    /\ Cardinality(usedNames) < MaxClaimed
    /\ LET key == <<sourceFile, 0, DirectiveAsk>>
           start == IF key \in DOMAIN uniqueNameCounters THEN uniqueNameCounters[key] ELSE 0
           gen == generateUniqueResultName(sourceFile, 0, DirectiveAsk,
                                           usedNames, uniqueNameCounters)
       IN  /\ usedNames' = gen.usedNames
           /\ uniqueNameCounters' = gen.counters
           /\ named' = <<[name |-> gen.name, key |-> key,
                          retries |-> gen.counters[key] - 1 - start,
                          claimed |-> Cardinality(usedNames),
                          fresh |-> gen.name \notin usedNames]>>
    /\ UNCHANGED <<doc, artifacts, cache, diskCache, envVars, callVars, resultFiles, arrival,
                   now, errChan, ctxDone, wk, calls, batchVars, loaded, checksums, cacheCopy, lockAt>>

NextSearch == \E sourceFile \in SourceFiles : NameFor(sourceFile)

SpecSearch == InitNames /\ [][NextSearch]_vars

\* the names the loop can give for a key: prefix, adjective, noun, block
\* index and counter
CounterNames(key) ==
    {candidateName(key[1], key[2], key[3], c) : c \in 0..(2 * MaxClaimed)}

\* the number of different adjective and noun pairs the loop goes through
PairCycle == Len(adjectives)

KeyTypes == {DirectiveAsk, <<" ", ":", "A", "S", "K", " ">>, DirectiveDo}

KeyLines == {<<>>, <<"a">>, <<"b">>, <<"a", "b">>, <<" ", "a", "\t">>}

KeyContents == UNION {[1..n -> KeyLines] : n \in 0..MaxContentLines}

KeyPositions == {0, 7}

\* checksumA := parser.calculateBlockChecksum(blockA), and the same for
\* blockB, a block at any position
TestCalculateBlockChecksum ==
    /\ pc = "idle" /\ run = 0
    /\ checksums = <<>>
    /\ \E typeA \in KeyTypes, typeB \in KeyTypes, contentA \in KeyContents,
          contentB \in KeyContents, pos \in KeyPositions :
          LET blockA == [Type |-> typeA, Content |-> contentA, Start |-> 0, End |-> 0]
              blockB == [Type |-> typeB, Content |-> contentB, Start |-> pos, End |-> 0]
          IN  /\ blocks' = [blocks EXCEPT ![1] = <<blockA, blockB>>]
              /\ checksums' = <<calculateBlockChecksum(blockA),
                                calculateBlockChecksum(blockB)>>
    /\ UNCHANGED <<doc, engineVars, diskCache, envVars, pc, run, at, content, dispatched,
                   ret, docAtReturn, okAtReturn, info, resultFiles, arrival, named, now,
                   errChan, ctxDone, wk, calls, batchVars, loaded, cacheCopy,
                   lockAt>>

NextKey == TestCalculateBlockChecksum

InitKey == doc = <<>> /\ InitEngine

SpecKey == InitKey /\ [][NextKey]_vars

\* the lines of a block that are not blank, each without the whitespace around it
RECURSIVE ContentLines(_)
ContentLines(lines) ==
    IF lines = <<>> THEN <<>>
    ELSE LET rest == ContentLines(Tail(lines))
         IN  IF \A n \in 1..Len(Head(lines)) : IsSpace(Head(lines)[n])
             THEN rest
             ELSE <<TrimSpace(Head(lines))>> \o rest

\* the types agree up to case and surrounding whitespace, and the content
\* lines agree, one by one, after trimming and dropping blank lines
SameNormalized(a, b) ==
    /\ ToLower(TrimSpace(a.Type)) = ToLower(TrimSpace(b.Type))
    /\ ContentLines(a.Content) = ContentLines(b.Content)

\* C30: two blocks have the same checksum exactly when their types agree up
\* to case and surrounding whitespace and their content lines agree after
\* trimming and dropping blank lines, wherever the blocks are; blocks whose
\* sequences of normalized lines differ, be it only in where a line break
\* falls, have different checksums.
C30_KeyOfNormalizedBlock ==
    checksums # <<>> =>
        (checksums[1] = checksums[2] <=> SameNormalized(blocks[1][1], blocks[1][2]))

\* two blocks written differently (the case of the type, the whitespace
\* around the type and the line, a blank line, the position) got the same
\* checksum
C30_Witness ==
    /\ checksums # <<>>
    /\ checksums[1] = checksums[2]
    /\ blocks[1][1] # blocks[1][2]
    /\ blocks[1][1].Type # blocks[1][2].Type
    /\ blocks[1][1].Start # blocks[1][2].Start
    /\ blocks[1][1].Content = <<<<" ", "a", "\t">>>>
    /\ blocks[1][2].Content = <<<<>>, <<"a">>>>

\* the text "ab" in one line and in two lines gives two checksums
C30_LineBreakWitness ==
    /\ checksums # <<>>
    /\ checksums[1] # checksums[2]
    /\ blocks[1][1].Type = blocks[1][2].Type
    /\ blocks[1][1].Content = <<<<"a", "b">>>>
    /\ blocks[1][2].Content = <<<<"a">>, <<"b">>>>

(***************************************************************************)
(* The document checksum across the rewrite                                *)
(***************************************************************************)
\* call r returned nil after writing the document back, and had blocks
RewroteBlocks(r) == Began(r) /\ ret[r] = "nil" /\ NumBlocks(r) > 0

\* C31: the checksum of the document a successful ProcessFile read equals the
\* checksum of the document it wrote back with the reference tokens in it.
C31_ChecksumInvariantUnderRewrite ==
    \A r \in Runs :
        RewroteBlocks(r) =>
            calculateChecksum(docAtReturn[r]) = calculateChecksum(content[r])

\* what holds instead: the two checksums differ whenever the call had a block
C31_RewriteChangesChecksum ==
    \A r \in Runs :
        RewroteBlocks(r) =>
            calculateChecksum(docAtReturn[r]) # calculateChecksum(content[r])

(***************************************************************************)
(* Block goroutines that outlive a cancelled call                          *)
(***************************************************************************)
\* a block goroutine of call r takes a step after the call returned ctx.Err()
LateStep(r) ==
    /\ ret[r] = "ctx"
    /\ \E i \in Slots : /\ wk[r][i] \in {"spawned", "asking"}
                        /\ wk'[r][i] \in {"asking", "hit", "ok", "err"}
                        /\ wk'[r][i] # wk[r][i]

\* C32: once ProcessFile has returned on cancellation, a block goroutine of
\* that call that finishes later inserts nothing into the cache, writes no
\* artifact and does not modify the document.
C32_LateResultsDiscarded ==
    [][\A r \in Runs :
          LateStep(r) => /\ cache' = cache
                         /\ artifacts' = artifacts
                         /\ doc' = doc]_vars

\* the part that holds: a late block goroutine does not modify the document
C32_LateResultsLeaveDocument ==
    [][\A r \in Runs : LateStep(r) => doc' = doc]_vars

(***************************************************************************)
(* Cancellation while executor calls are outstanding                       *)
(***************************************************************************)
InitPrompt == doc \in PersistDocs /\ InitEngine

NextPrompt ==
    \/ ProcessFileBegin
    \/ DispatchCancelled
    \/ DispatchBlock
    \/ AwaitCancelled
    \/ AwaitDone
    \/ WriteBack
    \/ SaveAndReturn
    \/ \E r \in Runs, i \in Slots : WorkerBegin(r, i)
    \/ \E r \in Runs, i \in Slots : ExecutorFails(r, i)
    \/ \E r \in Runs, i \in Slots : ExecutorAnswers(r, i)
    \/ Cancel

\* the steps of the goroutine that called ProcessFile: none of them waits
\* for anything but the scheduler
CallerStep ==
    \/ DispatchCancelled
    \/ DispatchBlock
    \/ AwaitCancelled
    \/ AwaitDone
    \/ WriteBack
    \/ SaveAndReturn

\* the caller's goroutine is scheduled; the block goroutines and the
\* executor may stay where they are for ever
SpecPrompt == InitPrompt /\ [][NextPrompt]_vars /\ WF_vars(CallerStep)

\* the context of call r is cancelled, the call has not returned, and an
\* executor call of it is outstanding
CancelledWhileAsking(r) ==
    /\ ctxDone[r] # ""
    /\ ret[r] = "none"
    /\ \E i \in Slots : wk[r][i] = "asking"

\* C33: when the context is cancelled while executor calls are outstanding,
\* ProcessFile eventually returns, also when an executor call never returns.
C33_PromptReturn ==
    \A r \in Runs : CancelledWhileAsking(r) ~> ret[r] # "none"

\* a call has returned the context's error while two executor calls of it
\* are outstanding
C33_Witness ==
    \E r \in Runs :
        /\ ret[r] = "ctx"
        /\ \A i \in 1..2 : wk[r][i] = "asking"

(***************************************************************************)
(* The cache entry of the path after a successful call                     *)
(***************************************************************************)
\* call r has just returned nil, it had blocks, and no block goroutine of
\* any call is running
QuietSuccess(r) ==
    /\ JustReturned(r)
    /\ ret[r] = "nil"
    /\ NumBlocks(r) > 0
    /\ \A q \in Runs, i \in Slots : ~Live(wk[q][i])

\* the result processBlock obtained for block i of call r: the answer of the
\* executor, which is in the artifact it wrote, or the result the cache held
ObtainedFor(r, i) ==
    IF calls[r][i] = 1
    THEN artifacts[ProducedFor(r, i)[1]].answer
    ELSE ProducedFor(r, i)

\* pathCache holds the checksum of the document call r read and, under the
\* checksum of every block of the call, the result obtained for the block
CommittedIn(pathCache, r) ==
    /\ pathCache # <<>>
    /\ pathCache[1].Checksum = calculateChecksum(content[r])
    /\ \A i \in 1..NumBlocks(r) :
          /\ BlockKey(r, i) \in DOMAIN pathCache[1].Blocks
          /\ pathCache[1].Blocks[BlockKey(r, i)].Result = ObtainedFor(r, i)

\* the cache a reader of the snapshot file gets
SnapshotCache ==
    IF diskCache.state # "valid" \/ diskCache.data = <<>> THEN <<>>
    ELSE <<[diskCache.data[1] EXCEPT !.Blocks = unmarshalBlocks(@)]>>

\* pathCache holds the checksum of the document call r read and, under the
\* checksum of every block of the call, the result obtained for a block of
\* the call with that checksum; for a block that is the only one with its
\* checksum that is the block's own result
CommittedPerKeyIn(pathCache, r) ==
    /\ pathCache # <<>>
    /\ pathCache[1].Checksum = calculateChecksum(content[r])
    /\ \A i \in 1..NumBlocks(r) :
          /\ BlockKey(r, i) \in DOMAIN pathCache[1].Blocks
          /\ \E j \in 1..NumBlocks(r) :
                /\ BlockKey(r, j) = BlockKey(r, i)
                /\ pathCache[1].Blocks[BlockKey(r, i)].Result = ObtainedFor(r, j)

NoAbandonedCall(r) == \A q \in 1..(r - 1) : ret[q] # "ctx"

InitSave == doc \in ConcurrentDocs /\ InitEngine

\* the copy under the read lock (cache_test.go 226-231)
SaveCopyOf(c) ==
    /\ at[c] = "save"
    /\ cacheCopy' = [cacheCopy EXCEPT ![c] = cache]
    /\ at' = [at EXCEPT ![c] = "marshal"]
    /\ UNCHANGED <<doc, engineVars, diskCache, envVars, pc, run, content, blocks, resultFiles,
                   arrival, named, now, errChan, dispatched, ctxDone, ret, docAtReturn,
                   okAtReturn, wk, calls, info, batchVars, loaded, checksums, lockAt>>

\* the copied entry still shares its Blocks map with the entry of p.cache:
\* ProcessFile makes a new map only for another file checksum
MapShared(c) ==
    /\ cacheCopy[c] # <<>> /\ cache # <<>>
    /\ cache[1].Checksum = cacheCopy[c][1].Checksum

\* blocks were inserted into the shared map since the copy was made
InsertedSinceCopy(c) == MapShared(c) /\ cache[1].Blocks # cacheCopy[c][1].Blocks

\* what json.MarshalIndent can read through the copy
MarshalViews(c) ==
    IF ~InsertedSinceCopy(c) THEN {cacheCopy[c]}
    ELSE LET copied == cacheCopy[c][1]
             live == cache[1].Blocks
         IN  {cacheCopy[c]} \cup
             { <<[copied EXCEPT !.Blocks = [k \in K |-> live[k]]]>> :
                 K \in {K \in SUBSET (DOMAIN live) : DOMAIN copied.Blocks \subseteq K} }

\* json.MarshalIndent, os.WriteFile, and the return of nil (cache_test.go
\* 233-246, processfile.go 389-394)
SaveWriteOf(c) ==
    /\ at[c] = "marshal"
    /\ \E view \in MarshalViews(c) : diskCache' = saveCache(view)
    /\ ReturnOf(c, "nil")
    /\ UNCHANGED <<doc, engineVars, envVars, pc, run, content, blocks, resultFiles,
                   arrival, named, now, errChan, dispatched, ctxDone, wk, calls, info,
                   batchVars, loaded, checksums, cacheCopy, lockAt>>

\* the runtime detects the concurrent map access and ends the process
SaveFatalOf(c) ==
    /\ at[c] = "marshal"
    /\ InsertedSinceCopy(c)
    /\ ret' = [ret EXCEPT ![c] = "fatal"]
    /\ at' = [d \in Runs |-> "done"]
    /\ wk' = [r \in Runs |-> [i \in Slots |->
                IF Live(wk[r][i]) THEN "dead" ELSE wk[r][i]]]
    /\ UNCHANGED <<doc, engineVars, diskCache, envVars, pc, run, content, blocks, resultFiles,
                   arrival, named, now, errChan, dispatched, ctxDone, docAtReturn,
                   okAtReturn, calls, info, batchVars, loaded, checksums, cacheCopy, lockAt>>

NextSave ==
    \/ BeginOf
    \/ \E c \in Runs : DispatchOf(c)
    \/ \E c \in Runs : AwaitDoneOf(c)
    \/ \E c \in Runs : WriteBackOf(c)
    \/ \E c \in Runs : SaveCopyOf(c)
    \/ \E c \in Runs : SaveWriteOf(c)
    \/ \E c \in Runs : SaveFatalOf(c)
    \/ \E c \in Runs, i \in Slots : WorkerBegin(c, i)
    \/ \E c \in Runs, i \in Slots : ExecutorAnswers(c, i)

SpecSave == InitSave /\ [][NextSave]_vars

\* call c leaves saveCache
SaveEnds(c) == at[c] = "marshal" /\ ret'[c] # ret[c]

\* C35: saveCache writes exactly the cache contents of the instant at which
\* the copy was made under the read lock; what processBlock inserts after
\* that instant is neither written nor read by the save.
C35_SnapshotIsolation ==
    [][\A c \in Runs :
          SaveEnds(c) => /\ ret'[c] = "nil"
                         /\ diskCache' = saveCache(cacheCopy[c])]_vars

\* the part that holds: a save during which no block was inserted into a
\* map of the copy writes the contents of the instant of the copy
C35_IsolatedWithoutInsert ==
    [][\A c \in Runs :
          (SaveEnds(c) /\ ~InsertedSinceCopy(c)) =>
              /\ ret'[c] = "nil"
              /\ diskCache' = saveCache(cacheCopy[c])]_vars

(***************************************************************************)
(* The locks: p.cacheMu and p.usedNamesMu                                  *)
(*                                                                         *)
(* A goroutine is modelled by its operations on the locks, in the order of *)
(* the code, with the statements between them that wait: the go statements,*)
(* the executor call and the wait for the block goroutines.  lockAt[t]     *)
(* holds the operations of goroutine t and how many of them it has done;   *)
(* t is <<c, 0>> for the caller of call c and <<c, i>> for the goroutine   *)
(* of its block i.  No code takes a lock of the path: p.fileLocks and      *)
(* p.saveMu are declared and never used.                                   *)
(***************************************************************************)
LockTasks == Runs \X (0..MaxBlocks)

\* a generateUniqueResultName that looks into the cache while it holds
\* usedNamesMu
generateUniqueResultNameLocks_ReadsCache ==
    << <<"Lock", "usedNamesMu">>, <<"RLock", "cacheMu">>, <<"RUnlock", "cacheMu">>,
       <<"Unlock", "usedNamesMu">> >>

\* generateUniqueResultName: Lock and the deferred Unlock (results.go 12-13)
generateUniqueResultNameLocks ==
    << <<"Lock", "usedNamesMu">>, <<"Unlock", "usedNamesMu">> >>

\* processBlock: the lookup (processfile.go 407-417), the executor call
\* (425), the name (440) and the insert (452-465)
processBlockLocks(force, hit) ==
    (IF force THEN <<>> ELSE << <<"Lock", "cacheMu">>, <<"Unlock", "cacheMu">> >>)
        \o (IF ~force /\ hit THEN <<>>
            ELSE << <<"Ask", "">> >> \o generateUniqueResultNameLocks
                     \o << <<"Lock", "cacheMu">>, <<"Unlock", "cacheMu">> >>)

\* saveCache: the copy under the read lock (cache_test.go 227-232)
saveCacheLocks == << <<"RLock", "cacheMu">>, <<"RUnlock", "cacheMu">> >>

\* ProcessFile: the entry of the path (processfile.go 308-318), the block
\* goroutines (330-356), the wait for them (358-379), saveCache (390)
ProcessFileLocks ==
    << <<"Lock", "cacheMu">>, <<"Unlock", "cacheMu">>, <<"Go", "">>, <<"Wait", "">> >>
        \o saveCacheLocks

\* the locks held after the first n of the operations ops, with their mode
RECURSIVE HeldIn(_, _)
HeldIn(ops, n) ==
    IF n = 0 THEN {}
    ELSE LET h == HeldIn(ops, n - 1)
             o == ops[n]
         IN  IF o[1] \in {"Lock", "RLock"} THEN h \cup {<<o[2], o[1]>>}
             ELSE IF o[1] \in {"Unlock", "RUnlock"} THEN {x \in h : x[1] # o[2]}
             ELSE h

Held(t) == HeldIn(lockAt[t].ops, lockAt[t].n)

NextOp(t) ==
    IF lockAt[t].n < Len(lockAt[t].ops) THEN lockAt[t].ops[lockAt[t].n + 1]
    ELSE <<"End", "">>

Requests(t) == NextOp(t)[1] \in {"Lock", "RLock"}

\* goroutine u holds the lock that t requests, in a mode that excludes t
Excludes(u, t) ==
    \E x \in Held(u) : /\ x[1] = NextOp(t)[2]
                       /\ ~(x[2] = "RLock" /\ NextOp(t)[1] = "RLock")

Advance(t) == lockAt' = [lockAt EXCEPT ![t].n = @ + 1]

Ended(t) == lockAt[t].ops # <<>> /\ lockAt[t].n = Len(lockAt[t].ops)

\* an operation that ends the goroutine: the rest of its code is not run
EndAfter(t) ==
    lockAt' = [lockAt EXCEPT ![t] = [ops |-> SubSeq(@.ops, 1, @.n + 1), n |-> @.n + 1]]

\* a goroutine calls ProcessFile
CallProcessFile(c) ==
    /\ lockAt[<<c, 0>>].ops = <<>>
    /\ lockAt' = [lockAt EXCEPT ![<<c, 0>>] = [ops |-> ProcessFileLocks, n |-> 0]]
    /\ UNCHANGED fileVarsButLocks

\* Lock or RLock returns
LockAcquire(t) ==
    /\ Requests(t)
    /\ \A u \in LockTasks : ~Excludes(u, t)
    /\ Advance(t)
    /\ UNCHANGED fileVarsButLocks

\* Unlock or RUnlock
LockRelease(t) ==
    /\ NextOp(t)[1] \in {"Unlock", "RUnlock"}
    /\ Advance(t)
    /\ UNCHANGED fileVarsButLocks

\* the go statements of the dispatch loop: a goroutine for every block, in
\* force mode or not, its block in the cache or not
Spawn(c) ==
    /\ NextOp(<<c, 0>>)[1] = "Go"
    /\ \E force \in BOOLEAN, hits \in [Slots -> BOOLEAN] :
          lockAt' = [t \in LockTasks |->
                       IF t = <<c, 0>> THEN [lockAt[t] EXCEPT !.n = @ + 1]
                       ELSE IF t[1] = c
                       THEN [ops |-> processBlockLocks(force, hits[t[2]]), n |-> 0]
                       ELSE lockAt[t]]
    /\ UNCHANGED fileVarsButLocks

\* the executor returns a result
AskReturns(t) ==
    /\ NextOp(t)[1] = "Ask"
    /\ Advance(t)
    /\ UNCHANGED fileVarsButLocks

\* the executor returns an error: processBlock returns
AskFails(t) ==
    /\ NextOp(t)[1] = "Ask"
    /\ EndAfter(t)
    /\ UNCHANGED fileVarsButLocks

\* done is closed: ProcessFile goes on to saveCache, or returns the errors
WaitBlocks(c) ==
    /\ NextOp(<<c, 0>>)[1] = "Wait"
    /\ \A i \in Slots : Ended(<<c, i>>)
    /\ IF \E i \in Slots : lockAt[<<c, i>>].ops[lockAt[<<c, i>>].n][1] = "Ask"
       THEN EndAfter(<<c, 0>>)
       ELSE Advance(<<c, 0>>)
    /\ UNCHANGED fileVarsButLocks

NextLocks ==
    \/ \E c \in Runs : CallProcessFile(c)
    \/ \E t \in LockTasks : LockAcquire(t)
    \/ \E t \in LockTasks : LockRelease(t)
    \/ \E c \in Runs : Spawn(c)
    \/ \E t \in LockTasks : AskReturns(t)
    \/ \E t \in LockTasks : AskFails(t)
    \/ \E c \in Runs : WaitBlocks(c)

InitLocks == doc = <<>> /\ InitEngine

SpecLocks == InitLocks /\ [][NextLocks]_vars

\* the order of the locks: the lock of the path, the cache, the names
LockRank(lock) ==
    CASE lock = "fileLock" -> 1
      [] lock = "cacheMu" -> 2
      [] lock = "usedNamesMu" -> 3

\* goroutine t requests a lock that another goroutine holds
Waiting(t) == Requests(t) /\ \E u \in LockTasks : Excludes(u, t)

SpanLines(text, b) == Split(Slice(text, b.Start, b.End))

\* offset pos of the text is where a line begins; where a line ends
AtLineStart(text, pos) == pos = 0 \/ text[pos] = NL

AtLineEnd(text, pos) == pos = Len(text) \/ text[pos + 1] = NL

\* the span of b runs from the first byte of a start-marker line to just
\* past the last byte of the next end-marker line
WellFormedSpan(text, b) ==
    /\ 0 <= b.Start /\ b.Start < b.End /\ b.End <= Len(text)
    /\ AtLineStart(text, b.Start)
    /\ AtLineEnd(text, b.End)
    /\ LET lines == SpanLines(text, b)
       IN  /\ Len(lines) >= 2
           /\ TrimSpace(lines[1]) = b.Type
           /\ b.Type \in {DirectiveAsk, DirectiveDo}
           /\ TrimSpace(lines[Len(lines)]) = DirectiveEnd
           /\ \A k \in 2..(Len(lines) - 1) :
                 TrimSpace(lines[k]) \notin {DirectiveAsk, DirectiveDo, DirectiveEnd}

\* C37: for every document that parses, each block has 0 <= Start < End <=
\* len(text), Start is the offset of the first byte of its start-marker line,
\* End the offset just past the last byte of its end-marker line, and the
\* blocks are in the order of the document without overlap or nesting.
C37_SpansWellFormed ==
    pc = "spliced" =>
        /\ \A i \in 1..Len(blocks[1]) : WellFormedSpan(content[1], blocks[1][i])
        /\ \A i \in 1..(Len(blocks[1]) - 1) : blocks[1][i].End <= blocks[1][i + 1].Start

\* a document with text before its first block, an end marker with spaces
\* around it, and a second block
C37_Witness ==
    /\ pc = "spliced"
    /\ Len(blocks[1]) >= 2
    /\ blocks[1][1].Start > 0
    /\ \E i \in 1..Len(blocks[1]) :
          LET lines == SpanLines(content[1], blocks[1][i])
          IN  lines[Len(lines)] # DirectiveEnd

(***************************************************************************)
(* Parsing the document again after the rewrite                            *)
(***************************************************************************)
\* C38: parsing the document the engine has rewritten succeeds and gives the
\* blocks of the parse before the rewrite, with the same boundaries.
C38_ReparseStability ==
    pc = "spliced" =>
        /\ parseBlocks(doc).err = ""
        /\ parseBlocks(doc).blocks = blocks[1]

\* what holds instead: the rewritten document parses without an error and
\* has no block
C38_ReparseFindsNoBlock ==
    pc = "spliced" =>
        /\ parseBlocks(doc).err = ""
        /\ parseBlocks(doc).blocks = <<>>

(***************************************************************************)
(* The value ProcessAllFiles returns when a file failed                    *)
(***************************************************************************)
\* ProcessFile of file f has returned an error: the goroutine of the file has
\* ended and a block of the file failed (ProcessFile returns nil only after
\* every block of the file ended well)
FileProcessingFailed(f) ==
    /\ fileAt[f] = "done"
    /\ \E i \in 1..FileBlocks[f] : fileWk[f][i] = "err"

\* C39: ProcessAllFiles returns nil only if every ProcessFile call it
\* started returned nil.
C39_NilOnlyIfAllNil ==
    allRet = "nil" => \A f \in Files : ~FileProcessingFailed(f)

\* the part that holds: when nil is returned, every goroutine of a file has
\* ended, and an error of a failed file is still in errChan, unread
C39_NilLeavesErrorUnread ==
    allRet = "nil" =>
        /\ allDone
        /\ (\E f \in Files : FileProcessingFailed(f)) => allErrChan # <<>>

(***************************************************************************)
(* Processing a document and cleaning it                                   *)
(***************************************************************************)
\* one line of the loop of cleanupGeneratedFiles: the lines it appends to
\* newLines for a line of the file
cleanLine(line) ==
    IF HasPrefix(TrimSpace(line), LinkOpen) THEN <<DirectiveEnd>> ELSE <<line>>

\* the content cleanupGeneratedFiles writes back for a .pml file
cleanResultLinks(fileContent) ==
    LET lines == Split(fileContent)
    IN  Join(Flatten([i \in 1..Len(lines) |-> cleanLine(lines[i])]))

\* the cleanup of the workspace: the result links of the document become
\* plain end markers, and the .pml directory, with the artifacts and the
\* cache file, is removed
cleanupGeneratedFiles ==
    /\ pc \in {"idle", "spliced"}
    /\ doc' = cleanResultLinks(doc)
    /\ artifacts' = EmptyMap
    /\ diskCache' = [state |-> "missing", data |-> <<>>]
    /\ pc' = "cleaned"
    /\ UNCHANGED <<cache, usedNames, uniqueNameCounters, envVars, run, at, content, blocks,
                   resultFiles, arrival, named, now, errChan, dispatched, ctxDone, ret,
                   docAtReturn, okAtReturn, wk, calls, info, batchVars, loaded, checksums,
                   cacheCopy, lockAt>>

NextCleanup == SpliceDocument \/ cleanupGeneratedFiles

SpecCleanup == InitSplice /\ [][NextCleanup]_vars

\* the type and the content of the blocks of a parse
TypeAndContent(bs) ==
    [k \in 1..Len(bs) |-> [Type |-> bs[k].Type, Content |-> bs[k].Content]]

\* the document was processed and cleaned after it
ProcessedAndCleaned == pc = "cleaned" /\ run = 1

\* C40: a document that was processed and then cleaned parses without an
\* error into the blocks, by type and content, of the original document.
C40_ProcessCleanupRoundTrip ==
    ProcessedAndCleaned =>
        /\ parseBlocks(doc).err = ""
        /\ TypeAndContent(parseBlocks(doc).blocks) = TypeAndContent(blocks[1])

\* what holds of the parse: the cleaned document parses exactly when the
\* original had no block, and then into no block; with a block it has an end
\* marker outside a block
C40_CleanedParsesOnlyWithoutBlocks ==
    ProcessedAndCleaned =>
        /\ blocks[1] = <<>> => parseBlocks(doc) = [err |-> "", blocks |-> <<>>]
        /\ blocks[1] # <<>> => parseBlocks(doc).err = "stray"

\* what holds of the lines: the cleanup keeps the number of lines and changes
\* only lines that begin, after trimming, with the opening of a result link;
\* such a line becomes a plain end marker
C40_CleanupChangesOnlyLinkLines ==
    [][pc' = "cleaned" =>
          LET old == Split(doc)
              new == Split(doc')
          IN  /\ Len(new) = Len(old)
              /\ \A i \in 1..Len(old) :
                    IF HasPrefix(TrimSpace(old[i]), LinkOpen)
                    THEN new[i] = DirectiveEnd
                    ELSE new[i] = old[i]]_vars

====
